---- MODULE Spec2Model ----
(***************************************************************************)
(* SyncFlow authentication / authorization core.                           *)
(*                                                                         *)
(* The durable store (Prisma / PostgreSQL), the cache (Redis) and the      *)
(* clock are the shared state; every request handler is a process whose    *)
(* position and local variables live in req[h].  Each await of a handler   *)
(* that touches the store or the cache is one step, so that handlers       *)
(* interleave exactly where the event loop lets them.                      *)
(*                                                                         *)
(* Time is counted in seconds.                                             *)
(***************************************************************************)
EXTENDS Integers, Sequences, FiniteSets, TLC

(***************************************************************************)
(* Bounds of the model.                                                    *)
(***************************************************************************)
MaxTicks == 1         \* clock advances in one behaviour
MaxSessions == 1      \* session rows created in one behaviour
MaxRegistrations == 2 \* transactions of register run in one behaviour

(***************************************************************************)
(* Program constants.                                                      *)
(***************************************************************************)
LOCK_THRESHOLD == 5               \* auth.controller.ts:261
ACCESS_TOKEN_EXPIRY == 900        \* '15m'
REFRESH_TOKEN_EXPIRY == 604800    \* '7d'
SESSION_LIFETIME == 604800        \* 1000 * 60 * 60 * 24 * 7 ms

ACCESS_TOKEN_SECRET == "ACCESS_TOKEN_SECRET"
REFRESH_TOKEN_SECRET == "REFRESH_TOKEN_SECRET"
RANDOM_TOKEN_SECRET == "RANDOM_TOKEN_SECRET"
ISSUER == "SyncFlow"
AUDIENCE == "SyncFlow-Aud"

ROLES == <<"Admin", "Manager", "Developer", "Viewer", "Guest">>

PERMISSIONS_PROJECT == <<"create_project", "edit_project", "delete_project", "view_project">>
PERMISSIONS_TASK == <<"create_task", "edit_task", "delete_task", "assign_task", "view_task">>
PERMISSIONS_USER == <<"create_user", "edit_user", "delete_user", "assign_roles", "view_users">>
PERMISSIONS_ACCESS == <<"manage_permissions", "invite_users", "remove_users", "view_roles">>

ALL_PERMISSIONS ==
    PERMISSIONS_PROJECT \o PERMISSIONS_TASK \o PERMISSIONS_USER \o PERMISSIONS_ACCESS

ROLE_PERMISSIONS ==
    [ Admin |-> ALL_PERMISSIONS,
      Manager |-> << "create_project", "edit_project", "view_project",
                     "create_task", "edit_task", "delete_task", "assign_task",
                     "view_task", "view_users", "invite_users", "view_roles" >>,
      Developer |-> << "view_project", "create_task", "edit_task", "view_task",
                       "view_users" >>,
      Viewer |-> << "view_project", "view_task", "view_users", "view_roles" >>,
      Guest |-> << "view_project", "view_task" >> ]

(***************************************************************************)
(* Small helpers for JavaScript values.                                    *)
(***************************************************************************)
Range(s) == { s[i] : i \in 1..Len(s) }

Includes(s, x) == x \in Range(s)

\* an optional property of an object: undefined, or a value
Undefined == [defined |-> FALSE]

Some(v) == [defined |-> TRUE, val |-> v]

\* the result of a query that found nothing
Null == [null |-> TRUE]

\* a DateTime? column that holds no date
NullDate == -1

\* { ...row, ...data }: the columns named in data are replaced, the others kept
Merge(row, data) ==
    [k \in DOMAIN row |-> IF k \in DOMAIN data THEN data[k] ELSE row[k]]

(***************************************************************************)
(* Identities of the seeded store and the inputs of the requests.          *)
(***************************************************************************)
UserIds == {"u1", "u2"}

RoleIds == {"r1", "r2", "r3", "r4", "r5"}

RoleNameOf == [r1 |-> "Admin", r2 |-> "Manager", r3 |-> "Developer",
               r4 |-> "Viewer", r5 |-> "Guest"]

EmailOf == [u1 |-> "ann@syncflow.io", u2 |-> "bob@syncflow.io"]

PhoneOf == [u1 |-> "+100", u2 |-> "+200"]

PasswordOf == [u1 |-> "pw-ann", u2 |-> "pw-bob"]

UnknownEmail == "nobody@syncflow.io"

LoginEmails == {"", EmailOf["u1"], UnknownEmail}

LoginPasswords == {"", "pw-ann", "pw-bob"}

IPs == {"10.0.0.1"}

UserAgents == {"Mozilla"}

\* the request handlers that may be in flight at once
Handlers == {"h1", "h2"}

VARIABLES
    now,            \* the clock, in seconds
    ticks,          \* how often the clock has advanced
    users,          \* table User: id -> row
    roles,          \* tables Role and RolePermission: id -> row
    userRoles,      \* table UserRole: set of rows
    sessions,       \* table Session: set of rows
    sessionSeq,     \* how many Session rows were ever created
    auditLog,       \* table AuditLog: the rows in the order written
    cacheSessions,  \* Redis hashes 'session: <id>': id -> fields
    blacklist,      \* Redis keys 'blacklist:<hash>': hash -> time the key expires
    req,            \* the request handlers: position, inputs, locals, response
    client,         \* what the caller holds: the last tokens it was sent
    mail,           \* the mails handed to the transporter
    twoFactorSettings, \* prisma.twoFactorSettings: userId -> row
    emailOtp,       \* Redis keys 'emailOtp:<userId>': userId -> code and expiry
    resp            \* the response of the last request served in one step

vars == << now, ticks, users, roles, userRoles, sessions, sessionSeq, auditLog,
           cacheSessions, blacklist, req, client, mail, twoFactorSettings, emailOtp, resp >>

(***************************************************************************)
(* utils/hashPassword.utils.ts (not among the source files): a one-way     *)
(* hash and its verification.                                              *)
(***************************************************************************)
hashPassword(plaintext) == << "bcrypt", plaintext >>

comparePassword(plaintext, hash) == hash = hashPassword(plaintext)

(***************************************************************************)
(* utils/token.utils.ts                                                    *)
(***************************************************************************)
\* jsonwebtoken's sign: the payload, the registered claims and the key
JwtSign(claims, secret, iss, aud, expiresIn, t) ==
    [key |-> secret, iss |-> iss, aud |-> aud, exp |-> t + expiresIn,
     claims |-> claims]

\* a string that is no JWT at all
NoToken == [key |-> "", iss |-> "", aud |-> "", exp |-> 0, claims |-> Null]

JwtValid_AnyAudience(token, secret, checkIssAud, t) ==
    /\ token.key = secret
    /\ checkIssAud => token.iss = ISSUER
    /\ t < token.exp

\* jsonwebtoken's verify: does not throw iff the signature is the key's, the
\* issuer and audience are the expected ones (when given) and exp is ahead
JwtValid(token, secret, checkIssAud, t) ==
    /\ token.key = secret
    /\ checkIssAud => (token.iss = ISSUER /\ token.aud = AUDIENCE)
    /\ t < token.exp

generateAccessToken_NoPermissions(user, t) ==
    JwtSign([userId |-> user.userId, email |-> user.email,
             roles |-> user.roles, permissions |-> Some(<< >>)],
            ACCESS_TOKEN_SECRET, ISSUER, AUDIENCE, ACCESS_TOKEN_EXPIRY, t)

generateAccessToken(user, t) ==
    JwtSign([userId |-> user.userId,
             email |-> user.email,
             roles |-> user.roles,
             permissions |-> IF user.permissions.defined
                             THEN user.permissions ELSE Some(<< >>)],
            ACCESS_TOKEN_SECRET, ISSUER, AUDIENCE, ACCESS_TOKEN_EXPIRY, t)

generateRefreshToken(userId, jti, t) ==
    JwtSign([userId |-> userId, jti |-> jti],
            REFRESH_TOKEN_SECRET, "", "", REFRESH_TOKEN_EXPIRY, t)

verifyAccessToken(token, t) ==
    IF ~JwtValid(token, ACCESS_TOKEN_SECRET, TRUE, t)
    THEN Null
    ELSE LET payload == token.claims
             rolesArr == IF payload.roles.defined
                         THEN payload.roles.val ELSE << "undefined" >>
             permsArr == IF payload.permissions.defined
                         THEN payload.permissions.val ELSE << >>
         IN  [userId |-> payload.userId,
              email |-> payload.email,
              roles |-> SelectSeq(rolesArr, LAMBDA r : Includes(ROLES, r)),
              permissions |->
                  SelectSeq(permsArr, LAMBDA p : Includes(ALL_PERMISSIONS, p))]

verifyRefreshToken(token, t) ==
    IF ~JwtValid(token, REFRESH_TOKEN_SECRET, FALSE, t)
    THEN Null
    ELSE IF token.claims.userId = "" \/ token.claims.jti = ""
         THEN Null
         ELSE token.claims

(***************************************************************************)
(* The store.                                                              *)
(***************************************************************************)
\* the Role rows with the names of the permissions their RolePermission rows
\* grant, seeded from the catalog
SeededRoles ==
    [r \in RoleIds |->
        [id |-> r, name |-> RoleNameOf[r],
         permissions |-> Range(ROLE_PERMISSIONS[RoleNameOf[r]])]]

\* a User row as prisma.user.create leaves it (schema defaults)
NewUser(id, email, phone, hashed) ==
    [id |-> id, email |-> email, phone |-> phone, password |-> hashed,
     failedAttempts |-> 0, isLocked |-> FALSE, lastLoginAt |-> NullDate,
     isEmailVerified |-> FALSE]

\* prisma.user.findUnique({ where: { email } })
FindUserByEmail(email) ==
    LET hit == { i \in DOMAIN users : users[i].email = email }
    IN  IF hit = {} THEN Null ELSE users[CHOOSE i \in hit : TRUE]

\* prisma.user.findUnique({ where: { id } })
FindUserById(id) == IF id \in DOMAIN users THEN users[id] ELSE Null

\* prisma.user.update({ where: { email }, data })
UserUpdate(email, data) ==
    [i \in DOMAIN users |->
        IF users[i].email = email THEN Merge(users[i], data) ELSE users[i]]

JtiValues == {"jti-1"}

(***************************************************************************)
(* controllers/auth.controller.ts: login                                   *)
(***************************************************************************)
NoSession == [id |-> 0]

\* no header, and the Authorization header 'Bearer <token>'
NoHeader == [bearer |-> FALSE, empty |-> TRUE, token |-> NoToken]

EmptyBearer == [bearer |-> TRUE, empty |-> TRUE, token |-> NoToken]

Bearer(token) == [bearer |-> TRUE, empty |-> FALSE, token |-> token]

\* no request was served by the step just taken
NoResp ==
    [op |-> "none", status |-> 0, message |-> "", missing |-> << >>,
     next |-> FALSE, user |-> Null, token |-> NoToken,
     header |-> NoHeader, refreshToken |-> NoToken, cacheOk |-> TRUE,
     input |-> Null, data |-> << >>]

IdleReq ==
    [pc |-> "idle", email |-> "", password |-> "", ip |-> "", userAgent |-> "",
     user |-> Null, compared |-> FALSE, accessToken |-> NoToken,
     refreshToken |-> NoToken, session |-> NoSession,
     status |-> 0, message |-> ""]

Respond(r, status, message) ==
    [r EXCEPT !.pc = "done", !.status = status, !.message = message]

FailedLoginData_OffByOne(user) ==
    [failedAttempts |-> user.failedAttempts + 1,
     isLocked |-> user.failedAttempts + 1 > LOCK_THRESHOLD]

FailedLoginData_Increment(user) ==
    [failedAttempts |-> users[user.id].failedAttempts + 1,
     isLocked |-> users[user.id].failedAttempts + 1 >= LOCK_THRESHOLD]

FailedLoginData_NeverLocks(user) ==
    [failedAttempts |-> user.failedAttempts + 1, isLocked |-> FALSE]

\* the data of the update after a failed comparison
FailedLoginData(user) ==
    [failedAttempts |-> user.failedAttempts + 1,
     isLocked |-> user.failedAttempts + 1 >= LOCK_THRESHOLD]

SuccessLoginData_NoReset(t) == [lastLoginAt |-> t]

\* the data of the update after a successful comparison
SuccessLoginData(t) == [failedAttempts |-> 0, lastLoginAt |-> t]

LoginLocked_Skipped(user) == FALSE

\* the account-lock check made on the row that was read
LoginLocked(user) == user.isLocked

\* the request arrives; the body is validated
LoginStart(h, email, password, ip, ua) ==
    /\ req[h].pc = "idle"
    /\ LET r == [IdleReq EXCEPT !.email = email, !.password = password,
                                !.ip = ip, !.userAgent = ua]
       IN  req' = [req EXCEPT ![h] =
                IF email = "" \/ password = ""
                THEN Respond(r, 400, "Email and password are required.")
                ELSE [r EXCEPT !.pc = "find"]]
    /\ UNCHANGED << now, ticks, users, roles, userRoles, sessions, sessionSeq,
                    auditLog, cacheSessions, blacklist, client, mail, twoFactorSettings, emailOtp >>
    /\ resp' = NoResp

\* await prisma.user.findUnique, then the checks made on the row read
LoginFind(h) ==
    /\ req[h].pc = "find"
    /\ LET user == FindUserByEmail(req[h].email)
           r == [req[h] EXCEPT !.user = user]
       IN  req' = [req EXCEPT ![h] =
                IF user = Null
                THEN Respond(r, 404, "User not found.")
                ELSE IF LoginLocked(user)
                THEN Respond(r, 403,
                        "Account is locked due to multiple failed login attempts.")
                ELSE [r EXCEPT !.pc = "compare"]]
    /\ UNCHANGED << now, ticks, users, roles, userRoles, sessions, sessionSeq,
                    auditLog, cacheSessions, blacklist, client, mail, twoFactorSettings, emailOtp >>
    /\ resp' = NoResp

\* await comparePassword on the row read, then await prisma.user.update
LoginCompare(h, jti) ==
    /\ req[h].pc = "compare"
    /\ LET r == [req[h] EXCEPT !.compared = TRUE]
           user == r.user
       IN  IF ~comparePassword(r.password, user.password)
           THEN /\ users' = UserUpdate(r.email, FailedLoginData(user))
                /\ req' = [req EXCEPT ![h] = Respond(r, 401, "Invalid credentials.")]
           ELSE /\ users' = UserUpdate(r.email, SuccessLoginData(now))
                /\ req' = [req EXCEPT ![h] =
                     [r EXCEPT !.pc = "session",
                               !.accessToken =
                                   generateAccessToken(
                                       [userId |-> user.id, email |-> user.email,
                                        roles |-> Undefined,
                                        permissions |-> Undefined], now),
                               !.refreshToken =
                                   generateRefreshToken(user.id, jti, now)]]
    /\ UNCHANGED << now, ticks, roles, userRoles, sessions, sessionSeq,
                    auditLog, cacheSessions, blacklist, client, mail, twoFactorSettings, emailOtp >>
    /\ resp' = NoResp

\* await prisma.session.create
LoginSession(h) ==
    /\ req[h].pc = "session"
    /\ sessionSeq < MaxSessions
    /\ LET s == [id |-> sessionSeq + 1, userId |-> req[h].user.id,
                 ipAddress |-> req[h].ip, userAgent |-> req[h].userAgent,
                 expiresAt |-> now + SESSION_LIFETIME, createdAt |-> now]
       IN  /\ sessions' = sessions \cup {s}
           /\ req' = [req EXCEPT ![h].pc = "mirror", ![h].session = s]
    /\ sessionSeq' = sessionSeq + 1
    /\ UNCHANGED << now, ticks, users, roles, userRoles, auditLog,
                    cacheSessions, blacklist, client, mail, twoFactorSettings, emailOtp >>
    /\ resp' = NoResp

\* await redis.hset('session: <id>', ...): the write is made, or it throws
LoginMirror(h, ok) ==
    /\ req[h].pc = "mirror"
    /\ IF ok
       THEN /\ cacheSessions' =
                 [k \in DOMAIN cacheSessions \cup {req[h].session.id} |->
                    IF k = req[h].session.id
                    THEN [userId |-> req[h].user.id, ipAddress |-> req[h].ip,
                          userAgent |-> req[h].userAgent,
                          expiresAt |-> now + SESSION_LIFETIME]
                    ELSE cacheSessions[k]]
            /\ req' = [req EXCEPT ![h].pc = "audit"]
       ELSE /\ cacheSessions' = cacheSessions
            /\ req' = [req EXCEPT ![h] =
                    Respond(req[h], 500, "Login failed. Please try again later.")]
    /\ UNCHANGED << now, ticks, users, roles, userRoles, sessions, sessionSeq,
                    auditLog, blacklist, client, mail, twoFactorSettings, emailOtp >>
    /\ resp' = NoResp

\* await prisma.auditLog.create, then the response with the tokens
LoginAudit(h, ok) ==
    /\ req[h].pc = "audit"
    /\ IF ok
       THEN /\ auditLog' = Append(auditLog,
                    [action |-> "USER_LOGGED_IN", userId |-> req[h].user.id,
                     ipAddress |-> req[h].ip])
            /\ req' = [req EXCEPT ![h] = Respond(req[h], 200, "Login successful.")]
            /\ client' = [access |-> req[h].accessToken,
                          refresh |-> req[h].refreshToken]
       ELSE /\ auditLog' = auditLog
            /\ req' = [req EXCEPT ![h] =
                    Respond(req[h], 500, "Login failed. Please try again later.")]
            /\ client' = client
    /\ UNCHANGED << now, ticks, users, roles, userRoles, sessions, sessionSeq,
                    cacheSessions, blacklist, mail, twoFactorSettings, emailOtp >>
    /\ resp' = NoResp

\* the handler has returned; the next request may be served
LoginReturn(h) ==
    /\ req[h].pc = "done"
    /\ req' = [req EXCEPT ![h] = IdleReq]
    /\ UNCHANGED << now, ticks, users, roles, userRoles, sessions, sessionSeq,
                    auditLog, cacheSessions, blacklist, client, mail, twoFactorSettings, emailOtp >>
    /\ resp' = NoResp

Login(h, emails, passwords) ==
    \/ \E e \in emails, p \in passwords, ip \in IPs, ua \in UserAgents :
            LoginStart(h, e, p, ip, ua)
    \/ LoginFind(h)
    \/ \E jti \in JtiValues : LoginCompare(h, jti)
    \/ LoginSession(h)
    \/ \E ok \in BOOLEAN : LoginMirror(h, ok)
    \/ \E ok \in BOOLEAN : LoginAudit(h, ok)
    \/ LoginReturn(h)

(***************************************************************************)
(* utils/tokenBlackList.utils.ts                                           *)
(***************************************************************************)
hashToken(token) == << "sha256", token >>

\* redis.get('blacklist:<hash>'): the value of a key that has not expired
RedisGetBlacklist(token, t) ==
    IF hashToken(token) \in DOMAIN blacklist /\ t < blacklist[hashToken(token)]
    THEN "true" ELSE "nil"

isTokenBlacklisted_Never(token, readOk, t) == FALSE

isTokenBlacklisted_FailClosed(token, readOk, t) ==
    IF readOk THEN RedisGetBlacklist(token, t) = "true" ELSE TRUE

\* readOk: the read of the cache succeeds; when it throws the answer is false
isTokenBlacklisted(token, readOk, t) ==
    IF readOk THEN RedisGetBlacklist(token, t) = "true" ELSE FALSE

\* redis.set('blacklist:<hash>', 'true', 'EX', expiry); a failed write is
\* logged and swallowed
blacklistToken(token, expiry, writeOk) ==
    /\ blacklist' =
         IF writeOk
         THEN [k \in DOMAIN blacklist \cup {hashToken(token)} |->
                 IF k = hashToken(token) THEN now + expiry ELSE blacklist[k]]
         ELSE blacklist
    /\ UNCHANGED << now, ticks, users, roles, userRoles, sessions, sessionSeq,
                    auditLog, cacheSessions, req, client, mail, twoFactorSettings, emailOtp >>
    /\ resp' = [NoResp EXCEPT !.op = "blacklistToken", !.token = token,
                              !.cacheOk = writeOk, !.next = TRUE]

(***************************************************************************)
(* middlewares/auth.middleware.ts                                          *)
(***************************************************************************)
Unauthorized(error) ==
    [status |-> 401, error |-> error, user |-> Null, next |-> FALSE]

\* what authenticate answers, or the identity it attaches before next()
authenticate(header, readOk, t) ==
    IF ~header.bearer
    THEN Unauthorized("Unauthorized: No token provided")
    ELSE IF header.empty
    THEN Unauthorized("Unauthorized: Empty token provided")
    ELSE IF isTokenBlacklisted(header.token, readOk, t)
    THEN Unauthorized("Unauthorized: Token is revoked")
    ELSE IF verifyAccessToken(header.token, t) = Null
    THEN Unauthorized("Unauthorized: Invalid or expired token")
    ELSE [status |-> 0, error |-> "", user |-> verifyAccessToken(header.token, t),
          next |-> TRUE]

(***************************************************************************)
(* middlewares/rbac.middleware.ts                                          *)
(***************************************************************************)
\* the permissions of the user's roles and the user's explicit permissions
UserPermissions_RolesOnly(user) ==
    UNION { Range(ROLE_PERMISSIONS[r]) :
              r \in Range(user.roles) \cap DOMAIN ROLE_PERMISSIONS }

\* ROLE_PERMISSIONS[role] || []: a role the catalog does not have grants
\* nothing
UserPermissions(user) ==
    UNION { Range(ROLE_PERMISSIONS[r]) :
              r \in Range(user.roles) \cap DOMAIN ROLE_PERMISSIONS }
        \cup Range(user.permissions)

\* Array.prototype.every stops at the first element that fails: that element
\* is the only one pushed to 'missing'
EveryHeld(required, held) ==
    LET lacking == { i \in 1..Len(required) : required[i] \notin held }
    IN  [ok |-> lacking = {},
         missing |-> IF lacking = {} THEN << >>
                     ELSE << required[CHOOSE i \in lacking :
                                         \A j \in lacking : i <= j] >>]

authorize_FromStore(user, required, requireAll, checkPermissions) ==
    LET stored == { roles[ur.roleId].name :
                      ur \in { x \in userRoles : x.userId = user.userId } }
        held == IF checkPermissions
                THEN UNION { Range(ROLE_PERMISSIONS[r]) : r \in stored }
                ELSE stored
        hasAccess == IF requireAll
                     THEN \A i \in 1..Len(required) : required[i] \in held
                     ELSE \E i \in 1..Len(required) : required[i] \in held
    IN  IF user = Null
        THEN [status |-> 401, error |-> "Unauthorized: User not authenticated",
              missing |-> << >>, next |-> FALSE]
        ELSE IF hasAccess
        THEN [status |-> 0, error |-> "", missing |-> << >>, next |-> TRUE]
        ELSE [status |-> 403, error |-> "Forbidden: Access denied",
              missing |-> << >>, next |-> FALSE]

authorize_NeverUnauthenticated(user, required, requireAll, checkPermissions) ==
    IF user = Null
    THEN [status |-> 403, error |-> "Forbidden: Access denied",
          missing |-> << >>, next |-> FALSE]
    ELSE LET held == IF checkPermissions THEN UserPermissions(user)
                     ELSE Range(user.roles)
             hasAccess == IF requireAll
                          THEN \A i \in 1..Len(required) : required[i] \in held
                          ELSE \E i \in 1..Len(required) : required[i] \in held
         IN  IF hasAccess
             THEN [status |-> 0, error |-> "", missing |-> << >>, next |-> TRUE]
             ELSE [status |-> 403, error |-> "Forbidden: Access denied",
                   missing |-> << >>, next |-> FALSE]

authorize(user, required, requireAll, checkPermissions) ==
    IF user = Null
    THEN [status |-> 401, error |-> "Unauthorized: User not authenticated",
          missing |-> << >>, next |-> FALSE]
    ELSE LET held == IF checkPermissions THEN UserPermissions(user)
                     ELSE Range(user.roles)
             all == EveryHeld(required, held)
             hasAccess == IF requireAll THEN all.ok
                          ELSE \E i \in 1..Len(required) : required[i] \in held
             missing == IF requireAll THEN all.missing ELSE << >>
         IN  IF hasAccess
             THEN [status |-> 0, error |-> "", missing |-> << >>, next |-> TRUE]
             ELSE [status |-> 403, error |-> "Forbidden: Access denied",
                   missing |-> missing, next |-> FALSE]

(***************************************************************************)
(* utils/permission.utils.ts                                               *)
(***************************************************************************)
\* prisma.role.findUnique({ where: { name } })
FindRoleByName(name) ==
    LET hit == { r \in DOMAIN roles : roles[r].name = name }
    IN  IF hit = {} THEN Null ELSE roles[CHOOSE r \in hit : TRUE]

\* the names of the roles the UserRole rows give the user
AssignedRoleNames(userId) ==
    { roles[ur.roleId].name : ur \in { x \in userRoles : x.userId = userId } }

UserRoleUnique_Absent(userId, roleId) == TRUE

\* @@unique([userId, roleId]): the store takes a row only when no row has the
\* pair
UserRoleUnique(userId, roleId) ==
    \A x \in userRoles : ~(x.userId = userId /\ x.roleId = roleId)

\* @default(uuid()): an id that no row has
NewUserRoleId(userId, roleId) ==
    << userId, roleId,
       1 + Cardinality({ x \in userRoles :
                           x.userId = userId /\ x.roleId = roleId }) >>

\* what assignRoleToUser returns and the UserRole table it leaves: no role of
\* the name answers false; a create the store refuses (the pair exists, or no
\* user has the id) throws, is caught and answers false
AssignRole(userId, roleName) ==
    LET role == FindRoleByName(roleName)
    IN  IF role = Null
        THEN [ok |-> FALSE, userRoles |-> userRoles]
        ELSE IF userId \notin DOMAIN users \/ ~UserRoleUnique(userId, role.id)
        THEN [ok |-> FALSE, userRoles |-> userRoles]
        ELSE [ok |-> TRUE,
              userRoles |-> userRoles \cup
                  {[id |-> NewUserRoleId(userId, role.id),
                    userId |-> userId, roleId |-> role.id]}]

assignRoleToUser(userId, roleName) ==
    /\ userRoles' = AssignRole(userId, roleName).userRoles
    /\ resp' = [NoResp EXCEPT !.op = "assignRoleToUser",
                  !.input = [userId |-> userId, roleName |-> roleName],
                  !.next = AssignRole(userId, roleName).ok]
    /\ UNCHANGED << now, ticks, users, roles, sessions, sessionSeq, auditLog,
                    cacheSessions, blacklist, req, client, mail, twoFactorSettings, emailOtp >>

(***************************************************************************)
(* routes/auth.routes.ts and the handlers behind authenticate              *)
(***************************************************************************)
\* authenticate reads the cache only for a header that carries a token
ReadsCache(header) == header.bearer /\ ~header.empty

\* the response of a route whose authenticate did not call next()
Rejected(op, auth, header, refreshToken, readOk) ==
    [NoResp EXCEPT !.op = op, !.status = auth.status, !.message = auth.error,
                   !.header = header, !.refreshToken = refreshToken,
                   !.cacheOk = readOk]

\* prisma.role.findMany({ where: { id: user.id }, select: { name } })
RefreshRoleQuery(user) ==
    LET hit == { r \in DOMAIN roles : roles[r].id = user.id }
    IN  IF hit = {} THEN << >> ELSE << roles[CHOOSE r \in hit : TRUE].name >>

\* AuthController.refreshToken, once authenticate has called next()
refreshToken(refresh, t) ==
    LET decoder == verifyRefreshToken(refresh, t)
        user == FindUserById(decoder.userId)
    IN  IF decoder = Null
        THEN [status |-> 401, message |-> "Invalid or expired refresh token.",
              token |-> NoToken]
        ELSE IF user = Null
        THEN [status |-> 404, message |-> "User not found.", token |-> NoToken]
        ELSE [status |-> 200, message |-> "Token refresh successful.",
              token |-> generateAccessToken(
                            [userId |-> user.id, email |-> user.email,
                             roles |-> Some(RefreshRoleQuery(user)),
                             permissions |-> Undefined], t)]

\* the middlewares of router.route('/refresh')
RefreshGuard(header, readOk, t) == authenticate(header, readOk, t)

\* POST /api/auth/refresh
Refresh(header, refresh, readOk) ==
    /\ LET auth == RefreshGuard(header, readOk, now)
           out == refreshToken(refresh, now)
       IN  IF ~auth.next
           THEN /\ resp' = Rejected("refresh", auth, header, refresh, readOk)
                /\ client' = client
           ELSE /\ resp' = [NoResp EXCEPT !.op = "refresh", !.status = out.status,
                              !.message = out.message, !.token = out.token,
                              !.next = TRUE, !.user = auth.user,
                              !.header = header, !.refreshToken = refresh,
                              !.cacheOk = readOk]
                /\ client' = IF out.status = 200
                             THEN [client EXCEPT !.access = out.token]
                             ELSE client
    /\ UNCHANGED << now, ticks, users, roles, userRoles, sessions, sessionSeq,
                    auditLog, cacheSessions, blacklist, req, mail, twoFactorSettings, emailOtp >>

\* what AuthController.logout writes to the revocation list
LogoutBlacklist(token, t) == blacklist

\* POST /api/auth/logout: the refresh cookie is cleared
Logout(header, readOk) ==
    /\ LET auth == authenticate(header, readOk, now)
       IN  IF ~auth.next
           THEN /\ resp' = Rejected("logout", auth, header, NoToken, readOk)
                /\ client' = client
                /\ blacklist' = blacklist
           ELSE /\ resp' = [NoResp EXCEPT !.op = "logout", !.status = 200,
                              !.message = "Logout successful.", !.next = TRUE,
                              !.user = auth.user, !.header = header,
                              !.cacheOk = readOk]
                /\ client' = [client EXCEPT !.refresh = NoToken]
                /\ blacklist' = LogoutBlacklist(header.token, now)
    /\ UNCHANGED << now, ticks, users, roles, userRoles, sessions, sessionSeq,
                    auditLog, cacheSessions, req, mail, twoFactorSettings, emailOtp >>

\* a route guarded by authenticate and authorize(required, options)
Protected(header, route, readOk) ==
    /\ LET auth == authenticate(header, readOk, now)
           rbac == authorize(auth.user, route.required, route.requireAll,
                             route.checkPermissions)
       IN  resp' =
             IF ~auth.next
             THEN Rejected("protected", auth, header, NoToken, readOk)
             ELSE [NoResp EXCEPT !.op = "protected",
                     !.status = IF rbac.next THEN 200 ELSE rbac.status,
                     !.message = rbac.error, !.missing = rbac.missing,
                     !.next = rbac.next, !.user = auth.user,
                     !.header = header, !.cacheOk = readOk]
    /\ UNCHANGED << now, ticks, users, roles, userRoles, sessions, sessionSeq,
                    auditLog, cacheSessions, blacklist, req, client, mail, twoFactorSettings, emailOtp >>

(***************************************************************************)
(* The clock.                                                              *)
(***************************************************************************)
Tick(d) ==
    /\ ticks < MaxTicks
    /\ now' = now + d
    /\ ticks' = ticks + 1
    /\ UNCHANGED << users, roles, userRoles, sessions, sessionSeq, auditLog,
                    cacheSessions, blacklist, req, client, mail, twoFactorSettings, emailOtp >>
    /\ resp' = NoResp

(***************************************************************************)
(* The state after deployment: the users are registered (the rows          *)
(* prisma.user.create writes), the role catalog is seeded, nobody has      *)
(* logged in.                                                              *)
(***************************************************************************)
Init ==
    /\ now = 0
    /\ ticks = 0
    /\ users = [i \in UserIds |->
                 NewUser(i, EmailOf[i], PhoneOf[i], hashPassword(PasswordOf[i]))]
    /\ roles = SeededRoles
    /\ userRoles = {}
    /\ sessions = {}
    /\ sessionSeq = 0
    /\ auditLog = << >>
    /\ cacheSessions = [k \in {} |-> Null]
    /\ blacklist = [k \in {} |-> 0]
    /\ req = [h \in Handlers |-> IdleReq]
    /\ client = [access |-> NoToken, refresh |-> NoToken]
    /\ mail = {}
    /\ twoFactorSettings = [u \in {} |-> Null]
    /\ emailOtp = [u \in {} |-> Null]
    /\ resp = NoResp

(***************************************************************************)
(* Concurrent logins.                                                      *)
(***************************************************************************)
NextLogin ==
    \/ \E h \in Handlers : Login(h, LoginEmails, LoginPasswords)
    \/ Tick(1)

SpecLogin == Init /\ [][NextLogin]_vars

(***************************************************************************)
(* Token lifecycle: one caller logs in, refreshes, logs out and calls      *)
(* guarded routes while time passes, tokens are revoked and roles are      *)
(* assigned.                                                               *)
(***************************************************************************)
TokenTickSteps == {1, ACCESS_TOKEN_EXPIRY, REFRESH_TOKEN_EXPIRY}

BlacklistExpiries == {1, ACCESS_TOKEN_EXPIRY}

AssignableRoleNames == {"Manager", "Auditor"}

ProtectedRoutes ==
    { [required |-> << "Manager" >>, requireAll |-> FALSE,
       checkPermissions |-> FALSE] }

\* the Authorization headers and refresh tokens the caller can send
Headers == {NoHeader, Bearer(client.access), Bearer(client.refresh)}

RefreshTokens == {NoToken, client.refresh}

NextToken ==
    \/ Login("h1", {EmailOf["u1"]}, {PasswordOf["u1"]})
    \/ \E d \in TokenTickSteps : Tick(d)
    \/ \E hd \in Headers, rt \in RefreshTokens, ok \in BOOLEAN :
            (ok \/ ReadsCache(hd)) /\ Refresh(hd, rt, ok)
    \/ \E hd \in Headers, ok \in BOOLEAN :
            (ok \/ ReadsCache(hd)) /\ Logout(hd, ok)
    \/ \E hd \in Headers, rt \in ProtectedRoutes, ok \in BOOLEAN :
            (ok \/ ReadsCache(hd)) /\ Protected(hd, rt, ok)
    \/ \E e \in BlacklistExpiries, ok \in BOOLEAN :
            /\ client.access # NoToken
            /\ blacklistToken(client.access, e, ok)
    \/ \E n \in AssignableRoleNames : assignRoleToUser("u1", n)

SpecToken == Init /\ [][NextToken]_vars

(***************************************************************************)
(* Lockout policy (login).                                                 *)
(***************************************************************************)
WrongPassword(r) == ~comparePassword(r.password, r.user.password)

\* handler h takes its step from position pc
Steps(h, pc) == req[h].pc = pc /\ req'[h] # req[h]

\* C1: once isLocked is true it stays true: no interleaving of logins ever
\* sets it back to false.
C1_LockedStaysLocked ==
    [][\A i \in DOMAIN users : users[i].isLocked => users'[i].isLocked]_vars

\* C2: in every reachable state, isLocked is true if and only if
\* failedAttempts >= 5.
C2_LockedIffThreshold ==
    \A i \in DOMAIN users :
        users[i].isLocked <=> users[i].failedAttempts >= LOCK_THRESHOLD

\* C3: a login with a wrong password for an unlocked identity that it read
\* with failedAttempts = k (0 <= k <= 4) answers 401 'Invalid credentials.',
\* leaves failedAttempts = k + 1 and isLocked = (k + 1 = 5), creates no
\* session and issues no token.
C3_WrongPasswordCounts ==
    [][\A h \in Handlers :
        ( /\ Steps(h, "compare")
          /\ WrongPassword(req[h])
          /\ req[h].user.failedAttempts \in 0..4 )
        => LET k == req[h].user.failedAttempts
               row == users'[req[h].user.id]
           IN  /\ req'[h].pc = "done"
               /\ req'[h].status = 401
               /\ req'[h].message = "Invalid credentials."
               /\ row.failedAttempts = k + 1
               /\ row.isLocked = (k + 1 = 5)
               /\ req'[h].accessToken = NoToken
               /\ req'[h].refreshToken = NoToken
               /\ UNCHANGED << sessions, sessionSeq, cacheSessions, client >>
      ]_vars

C3_Witness ==
    \E h \in Handlers :
        /\ req[h].pc = "done"
        /\ req[h].status = 401
        /\ req[h].user # Null
        /\ req[h].user.failedAttempts = 4
        /\ users[req[h].user.id].failedAttempts = 5
        /\ users[req[h].user.id].isLocked

\* C4: a login that finds its identity locked answers 403 whatever the
\* password, without comparing the password, and changes neither the
\* identity nor the sessions, the cache or the audit log.
C4_LockedRejected ==
    [][\A h \in Handlers :
        ( /\ Steps(h, "find")
          /\ FindUserByEmail(req[h].email) # Null
          /\ FindUserByEmail(req[h].email).isLocked )
        => /\ req'[h].pc = "done"
           /\ req'[h].status = 403
           /\ req'[h].message =
                "Account is locked due to multiple failed login attempts."
           /\ ~req'[h].compared
           /\ UNCHANGED << users, sessions, sessionSeq, cacheSessions,
                           auditLog, client >>
      ]_vars

C4_Witness ==
    \E h \in Handlers :
        /\ req[h].pc = "done"
        /\ req[h].status = 403
        /\ ~req[h].compared
        /\ comparePassword(req[h].password, req[h].user.password)

\* C5: a login with the correct password for an unlocked identity that it
\* read with failedAttempts = n (n < 5) leaves failedAttempts = 0 and
\* lastLoginAt = the time of the login.
C5_SuccessResets ==
    [][\A h \in Handlers :
        ( /\ Steps(h, "compare")
          /\ ~WrongPassword(req[h])
          /\ req[h].user.failedAttempts < 5 )
        => LET row == users'[req[h].user.id]
           IN  /\ row.failedAttempts = 0
               /\ row.lastLoginAt = now
               /\ row.isLocked = users[req[h].user.id].isLocked
      ]_vars

C5_Witness ==
    \E h \in Handlers :
        /\ req[h].pc = "session"
        /\ req[h].user.failedAttempts > 0
        /\ users[req[h].user.id].failedAttempts = 0
        /\ users[req[h].user.id].lastLoginAt = now
        /\ now > 0

\* C6: the response to a login with an unknown email is the response to a
\* login with a known email and a wrong password: same status, same message.
C6_NoUserEnumeration ==
    \A g, h \in Handlers :
        ( /\ req[g].pc = "done" /\ req[g].status # 400 /\ req[g].user = Null
          /\ req[h].pc = "done" /\ req[h].user # Null /\ req[h].compared
          /\ WrongPassword(req[h]) )
        => /\ req[g].status = req[h].status
           /\ req[g].message = req[h].message

(***************************************************************************)
(* Revocation, logout and refresh.                                         *)
(***************************************************************************)
\* the cache holds an entry for the token that has not expired
Revoked(token) ==
    hashToken(token) \in DOMAIN blacklist /\ now < blacklist[hashToken(token)]

\* the step just taken served a request that went through authenticate
Authenticated == resp.op \in {"refresh", "logout", "protected"}

RejectedUnauthorized == resp.status = 401 /\ resp.user = Null /\ ~resp.next

C8_LogoutRevokes ==
    (resp.op = "logout" /\ resp.status = 200)
        => /\ Revoked(resp.header.token)
           /\ authenticate(resp.header, TRUE, now).status = 401

\* C9: a refresh request carrying a valid, unexpired refresh token of an
\* existing identity yields a newly issued access token, whether or not the
\* request also carries a valid access token.
C9_RefreshTokenSuffices ==
    ( /\ resp.op = "refresh"
      /\ verifyRefreshToken(resp.refreshToken, now) # Null
      /\ FindUserById(verifyRefreshToken(resp.refreshToken, now).userId) # Null )
        => /\ resp.status = 200
           /\ verifyAccessToken(resp.token, now) # Null

\* C10: the access token issued by a refresh carries the roles currently
\* assigned to the identity in the store, so that the guard grants each of
\* them.
C10_RefreshCarriesRoles ==
    (resp.op = "refresh" /\ resp.status = 200)
        => LET user == verifyAccessToken(resp.token, now)
           IN  /\ Range(user.roles) = AssignedRoleNames(user.userId)
               /\ \A r \in AssignedRoleNames(user.userId) :
                      authorize(user, << r >>, FALSE, FALSE).next

(***************************************************************************)
(* The access token and the guard: tokens are issued for any claim set,    *)
(* tokens of other keys, issuers and audiences are presented, roles are    *)
(* assigned in the store, the clock passes the expiry.                     *)
(***************************************************************************)
ClaimRoles ==
    { Undefined, Some(<< >>), Some(<< "Viewer" >>), Some(<< "Manager" >>),
      Some(<< "Auditor", "Manager" >>), Some(<< "Manager", "Manager" >>) }

ClaimPermissions ==
    { Undefined, Some(<< >>), Some(<< "delete_project" >>),
      Some(<< "fly", "view_task", "view_task" >>) }

\* the claim sets generateAccessToken is called with
ClaimSets ==
    { [userId |-> "u1", email |-> EmailOf["u1"], roles |-> r, permissions |-> p] :
        r \in ClaimRoles, p \in ClaimPermissions }

\* a JWT with the payload of an access token, as signed by jwt.sign with
\* another key, issuer or audience
ForeignKeys == {ACCESS_TOKEN_SECRET, REFRESH_TOKEN_SECRET, RANDOM_TOKEN_SECRET}

ForeignIssuers == {ISSUER, "Other"}

ForeignAudiences == {AUDIENCE, "Other-Aud"}

\* the clock steps around the expiry of an access token
JwtTickSteps ==
    {ACCESS_TOKEN_EXPIRY - 1, ACCESS_TOKEN_EXPIRY, ACCESS_TOKEN_EXPIRY + 1}

GuardedRoutes ==
    { [required |-> << "Manager" >>, requireAll |-> FALSE,
       checkPermissions |-> FALSE],
      [required |-> << "Viewer", "Manager" >>, requireAll |-> TRUE,
       checkPermissions |-> FALSE],
      [required |-> << "create_project", "delete_project" >>, requireAll |-> TRUE,
       checkPermissions |-> TRUE],
      [required |-> << "view_roles", "fly" >>, requireAll |-> FALSE,
       checkPermissions |-> TRUE] }

\* a call of generateAccessToken; the caller keeps the token
IssueAccess(claims) ==
    /\ client' = [client EXCEPT !.access = generateAccessToken(claims, now)]
    /\ resp' = [NoResp EXCEPT !.op = "generateAccessToken", !.input = claims,
                              !.token = generateAccessToken(claims, now)]
    /\ UNCHANGED << now, ticks, users, roles, userRoles, sessions, sessionSeq,
                    auditLog, cacheSessions, blacklist, req, mail, twoFactorSettings, emailOtp >>

\* a token that jwt.sign made with some key, issuer and audience
PresentForeign(claims, key, iss, aud) ==
    /\ client' = [client EXCEPT !.access =
                    JwtSign(claims, key, iss, aud, ACCESS_TOKEN_EXPIRY, now)]
    /\ resp' = NoResp
    /\ UNCHANGED << now, ticks, users, roles, userRoles, sessions, sessionSeq,
                    auditLog, cacheSessions, blacklist, req, mail, twoFactorSettings, emailOtp >>

\* a call of verifyAccessToken on the token the caller holds
VerifyAccess ==
    /\ client.access # NoToken
    /\ resp' = [NoResp EXCEPT !.op = "verifyAccessToken",
                              !.token = client.access,
                              !.user = verifyAccessToken(client.access, now)]
    /\ UNCHANGED << now, ticks, users, roles, userRoles, sessions, sessionSeq,
                    auditLog, cacheSessions, blacklist, req, client, mail, twoFactorSettings, emailOtp >>

NextJwt ==
    \/ \E c \in ClaimSets : IssueAccess(c)
    \/ \E c \in ClaimSets, k \in ForeignKeys, i \in ForeignIssuers,
          a \in ForeignAudiences : PresentForeign(c, k, i, a)
    \/ VerifyAccess
    \/ \E rt \in GuardedRoutes : Protected(Bearer(client.access), rt, TRUE)
    \/ \E n \in AssignableRoleNames : assignRoleToUser("u1", n)
    \/ \E d \in JwtTickSteps : Tick(d)

SpecJwt == Init /\ [][NextJwt]_vars

\* what the guard of a route decides for a request that carries the token
GuardDecision(token, route) ==
    LET auth == authenticate(Bearer(token), TRUE, now)
    IN  auth.next /\ authorize(auth.user, route.required, route.requireAll,
                               route.checkPermissions).next

\* C11: the decision of the guard depends only on the presented token and the
\* static catalog: a change of the role assignments in the store changes the
\* decision for no route, as long as the same token is presented.
C11_DecisionFromTokenOnly ==
    [][ userRoles' # userRoles =>
          \A rt \in GuardedRoutes :
              GuardDecision(client.access, rt)' = GuardDecision(client.access, rt)
      ]_vars

C11_Witness ==
    /\ resp.op = "protected"
    /\ resp.status = 403
    /\ resp.user # Null
    /\ "Manager" \in AssignedRoleNames(resp.user.userId)
    /\ "Manager" \notin Range(resp.user.roles)

\* the elements of s that are in the catalog, in the order of s
RECURSIVE RestrictedTo(_, _)
RestrictedTo(s, catalog) ==
    IF s = << >> THEN << >>
    ELSE IF Head(s) \in Range(catalog)
    THEN << Head(s) >> \o RestrictedTo(Tail(s), catalog)
    ELSE RestrictedTo(Tail(s), catalog)

\* an absent list counts as the empty list
ListOrEmpty(opt) == IF opt.defined THEN opt.val ELSE << >>

\* C12: for every claim set, verifyAccessToken(generateAccessToken(claims))
\* before expiry returns the same userId and email, the claim roles
\* restricted to the role catalog and the claim permissions restricted to the
\* permission catalog; unknown or absent roles and permissions are dropped
\* and never make the token invalid.
C12_AccessTokenRoundTrip ==
    resp.op = "generateAccessToken" =>
        \A t \in {now, now + 1, now + ACCESS_TOKEN_EXPIRY - 1} :
            LET v == verifyAccessToken(resp.token, t)
                c == resp.input
            IN  /\ v # Null
                /\ v.userId = c.userId
                /\ v.email = c.email
                /\ v.roles = RestrictedTo(ListOrEmpty(c.roles), ROLES)
                /\ v.permissions =
                       RestrictedTo(ListOrEmpty(c.permissions), ALL_PERMISSIONS)

C12_Witness ==
    /\ resp.op = "generateAccessToken"
    /\ resp.input.roles = Some(<< "Auditor", "Manager" >>)
    /\ resp.input.permissions = Some(<< "fly", "view_task", "view_task" >>)
    /\ verifyAccessToken(resp.token, now).roles = << "Manager" >>
    /\ verifyAccessToken(resp.token, now).permissions = << "view_task", "view_task" >>

\* the token is signed with the access-token key and carries the issuer and
\* the audience of SyncFlow
ProperlySigned(token) ==
    /\ token.key = ACCESS_TOKEN_SECRET
    /\ token.iss = "SyncFlow"
    /\ token.aud = "SyncFlow-Aud"

\* C13: verifyAccessToken returns an identity if and only if the token was
\* signed with the access-token key, carries issuer 'SyncFlow' and audience
\* 'SyncFlow-Aud' and the current time is before its expiry; in every other
\* case it returns null.  A token with expiry t verifies at t - 1 and fails at
\* t + 1.
C13_VerifiesIffProper ==
    resp.op = "verifyAccessToken" =>
        /\ resp.user # Null <=> (ProperlySigned(resp.token) /\ now < resp.token.exp)
        /\ (ProperlySigned(resp.token) /\ now = resp.token.exp - 1)
               => resp.user # Null
        /\ (ProperlySigned(resp.token) /\ now = resp.token.exp + 1)
               => resp.user = Null

C13_Witness ==
    /\ resp.op = "verifyAccessToken"
    /\ ProperlySigned(resp.token)
    /\ now = resp.token.exp - 1
    /\ resp.user # Null
    /\ resp.user.userId = "u1"

\* reachability of the other cases of C13
C13_ExpiredCase ==
    /\ resp.op = "verifyAccessToken"
    /\ ProperlySigned(resp.token)
    /\ now = resp.token.exp + 1
    /\ resp.user = Null

C13_OtherKeyCase ==
    /\ resp.op = "verifyAccessToken"
    /\ resp.token.key = RANDOM_TOKEN_SECRET
    /\ resp.token.iss = "SyncFlow" /\ resp.token.aud = "SyncFlow-Aud"
    /\ now < resp.token.exp
    /\ resp.user = Null

C13_OtherAudienceCase ==
    /\ resp.op = "verifyAccessToken"
    /\ resp.token.key = ACCESS_TOKEN_SECRET
    /\ resp.token.iss = "SyncFlow" /\ resp.token.aud # "SyncFlow-Aud"
    /\ now < resp.token.exp
    /\ resp.user = Null

(***************************************************************************)
(* Action tokens: generatetoken / verifyToken and the handlers that take   *)
(* them.                                                                   *)
(***************************************************************************)
ACTION_TOKEN_EXPIRY == 3600       \* '1h'

generatetoken_OtherAudience(email, t) ==
    JwtSign([email |-> email, data |-> RANDOM_TOKEN_SECRET],
            RANDOM_TOKEN_SECRET, ISSUER, "SyncFlow-Reset", ACTION_TOKEN_EXPIRY, t)

generatetoken(email, t) ==
    JwtSign([email |-> email, data |-> RANDOM_TOKEN_SECRET],
            RANDOM_TOKEN_SECRET, ISSUER, AUDIENCE, ACTION_TOKEN_EXPIRY, t)

\* jwt.verify is not wrapped: a token that does not verify is an exception
\* thrown to the caller
verifyToken(token, t) ==
    IF JwtValid(token, RANDOM_TOKEN_SECRET, TRUE, t)
    THEN [threw |-> FALSE, email |-> token.claims.email]
    ELSE [threw |-> TRUE, email |-> ""]

\* transporter.sendMail; a failure is logged and swallowed
SendMail(to, kind, token, sent) ==
    mail' = IF sent THEN mail \cup {[to |-> to, kind |-> kind, token |-> token]}
            ELSE mail

\* AuthController.forgetPassword
ForgetPassword(email, sent) ==
    /\ IF email = ""
       THEN /\ resp' = [NoResp EXCEPT !.op = "forgetPassword", !.status = 400,
                                      !.message = "Email is required."]
            /\ mail' = mail
       ELSE /\ resp' = [NoResp EXCEPT !.op = "forgetPassword", !.status = 200,
                          !.message = "Password reset email sent successfully.",
                          !.token = generatetoken(email, now)]
            /\ SendMail(email, "passwordReset", generatetoken(email, now), sent)
    /\ UNCHANGED << now, ticks, users, roles, userRoles, sessions, sessionSeq,
                    auditLog, cacheSessions, blacklist, req, client, twoFactorSettings, emailOtp >>

\* AuthController.resendEmailVerification; user is req.user
ResendEmailVerification(user, sent) ==
    /\ IF user = Null
       THEN /\ resp' = [NoResp EXCEPT !.op = "resendEmailVerification",
                                      !.status = 400,
                                      !.message = "Email is required."]
            /\ mail' = mail
       ELSE /\ resp' = [NoResp EXCEPT !.op = "resendEmailVerification",
                          !.status = 200,
                          !.message = "Verification email sent successfully.",
                          !.token = generatetoken(user.email, now)]
            /\ SendMail(user.email, "welcome", generatetoken(user.email, now), sent)
    /\ UNCHANGED << now, ticks, users, roles, userRoles, sessions, sessionSeq,
                    auditLog, cacheSessions, blacklist, req, client, twoFactorSettings, emailOtp >>

\* the answer of a handler and the User table it leaves
Outcome(status, message, table) ==
    [status |-> status, message |-> message, users |-> table]

\* AuthController.verifyEmail; prisma.user.update throws when no row matches
verifyEmail(token, t) ==
    IF ~token.defined
    THEN Outcome(400, "Invalid token.", users)
    ELSE LET verify == verifyToken(token.val, t)
         IN  IF verify.threw
             THEN Outcome(500, "Email verification failed. Please try again later.",
                          users)
             ELSE IF verify.email = ""
             THEN Outcome(401, "Invalid or expired token.", users)
             ELSE IF FindUserByEmail(verify.email) = Null
             THEN Outcome(500, "Email verification failed. Please try again later.",
                          users)
             ELSE Outcome(200, "Email verified successfully.",
                          UserUpdate(verify.email, [isEmailVerified |-> TRUE]))

\* AuthController.passwordResetVerify
passwordResetVerify(token, password, t) ==
    IF ~token.defined \/ password = ""
    THEN Outcome(400, "Token and password are required.", users)
    ELSE LET verified == verifyToken(token.val, t)
         IN  IF verified.threw
             THEN Outcome(500,
                     "Password reset verify failed. Please try again later.", users)
             ELSE IF verified.email = ""
             THEN Outcome(401, "Invalid or expired token.", users)
             ELSE IF FindUserByEmail(verified.email) = Null
             THEN Outcome(500,
                     "Password reset verify failed. Please try again later.", users)
             ELSE Outcome(200, "Password reset successfully.",
                          UserUpdate(verified.email,
                                     [password |-> hashPassword(password)]))

\* the response of a handler that was given an action token
ActionResp(op, token, password, out) ==
    [NoResp EXCEPT !.op = op, !.status = out.status, !.message = out.message,
                   !.input = [token |-> token, password |-> password],
                   !.token = IF token.defined THEN token.val ELSE NoToken]

VerifyEmail(token) ==
    /\ LET out == verifyEmail(token, now)
       IN  /\ users' = out.users
           /\ resp' = ActionResp("verifyEmail", token, "", out)
    /\ UNCHANGED << now, ticks, roles, userRoles, sessions, sessionSeq,
                    auditLog, cacheSessions, blacklist, req, client, mail, twoFactorSettings, emailOtp >>

PasswordResetVerify(token, password) ==
    /\ LET out == passwordResetVerify(token, password, now)
       IN  /\ users' = out.users
           /\ resp' = ActionResp("passwordResetVerify", token, password, out)
    /\ UNCHANGED << now, ticks, roles, userRoles, sessions, sessionSeq,
                    auditLog, cacheSessions, blacklist, req, client, mail, twoFactorSettings, emailOtp >>

ForgetEmails == {"", EmailOf["u1"], UnknownEmail}

ResendUsers == {Null, [userId |-> "u2", email |-> EmailOf["u2"]]}

ResetPasswords == {"", "pw-new"}

\* no token, a string that is no JWT, an access token, and the tokens mailed
ActionTokenInputs ==
    { Undefined, Some(NoToken),
      Some(generateAccessToken([userId |-> "u1", email |-> EmailOf["u1"],
                                roles |-> Some(<< >>),
                                permissions |-> Some(<< >>)], now)) }
        \cup { Some(m.token) : m \in mail }

\* the clock steps around the expiry of an action token
ActionTickSteps ==
    {1, ACTION_TOKEN_EXPIRY - 1, ACTION_TOKEN_EXPIRY + 1}

NextAction ==
    \/ \E e \in ForgetEmails, sent \in BOOLEAN : ForgetPassword(e, sent)
    \/ \E u \in ResendUsers, sent \in BOOLEAN : ResendEmailVerification(u, sent)
    \/ \E tk \in ActionTokenInputs : VerifyEmail(tk)
    \/ \E tk \in ActionTokenInputs, pw \in ResetPasswords :
            PasswordResetVerify(tk, pw)
    \/ \E d \in ActionTickSteps : Tick(d)

SpecAction == Init /\ [][NextAction]_vars

\* the step just taken served a request that presented an action token
TookActionToken == resp.op \in {"verifyEmail", "passwordResetVerify"}

\* the action token does not verify now: not a JWT, another key, issuer or
\* audience, or expired
InvalidActionToken(token) ==
    ~( /\ token.key = RANDOM_TOKEN_SECRET
       /\ token.iss = "SyncFlow"
       /\ token.aud = "SyncFlow-Aud"
       /\ now < token.exp )

\* C14: an invalid, malformed or expired action token presented to
\* verifyEmail or passwordResetVerify is answered 401 and changes no identity
\* field; it is never answered 500.
C14_InvalidTokenUnauthorized ==
    [][ ( /\ TookActionToken'
          /\ resp'.input.token.defined
          /\ resp'.status # 400
          /\ InvalidActionToken(resp'.token) )
        => (resp'.status = 401 /\ users' = users)
      ]_vars

C15_ResetTokenVerifiesEmail ==
    /\ resp.op = "verifyEmail"
    /\ resp.status = 200
    /\ \E m \in mail : m.token = resp.token /\ m.kind = "passwordReset"
    /\ \A m \in mail : m.token = resp.token => m.kind # "welcome"

(***************************************************************************)
(* Sessions: the durable records and their mirror in the cache.            *)
(***************************************************************************)
\* the Session rows of earlier logins: two devices of u1, one of u2
EarlierSessions ==
    { [id |-> 101, userId |-> "u1", ipAddress |-> "10.0.0.1",
       userAgent |-> "Mozilla", expiresAt |-> SESSION_LIFETIME - 30,
       createdAt |-> -30],
      [id |-> 102, userId |-> "u1", ipAddress |-> "10.0.0.2",
       userAgent |-> "curl", expiresAt |-> SESSION_LIFETIME - 20,
       createdAt |-> -20],
      [id |-> 103, userId |-> "u2", ipAddress |-> "10.0.0.3",
       userAgent |-> "Mozilla", expiresAt |-> SESSION_LIFETIME - 10,
       createdAt |-> -10] }

\* the hash redis.hset wrote for a Session row
MirrorOf(session) ==
    [userId |-> session.userId, ipAddress |-> session.ipAddress,
     userAgent |-> session.userAgent, expiresAt |-> session.expiresAt]

\* orderBy: { createdAt: 'desc' }
RECURSIVE OrderByCreatedDesc(_)
OrderByCreatedDesc(rows) ==
    IF rows = {} THEN << >>
    ELSE LET newest == CHOOSE x \in rows :
                           \A y \in rows : y.createdAt <= x.createdAt
         IN  << newest >> \o OrderByCreatedDesc(rows \ {newest})

\* prisma.session.findMany({ where: { userId }, orderBy: { createdAt: 'desc' } })
SessionsOf(userId) ==
    OrderByCreatedDesc({ x \in sessions : x.userId = userId })

\* the answer of a handler and the Session table it leaves
SessionOutcome(status, message, table, data) ==
    [status |-> status, message |-> message, sessions |-> table, data |-> data]

\* AuthController.getAllSessions; user is req.user
getAllSessions(user) ==
    IF user = Null
    THEN SessionOutcome(400, "User ID is required.", sessions, << >>)
    ELSE SessionOutcome(200, "Sessions retrieved successfully.", sessions,
                        SessionsOf(user.userId))

revokeSession_AllOfUser(sessionId) ==
    LET hit == { x \in sessions : sessionId.defined /\ x.id = sessionId.val }
    IN  SessionOutcome(200, "Session revoked successfully.",
            { x \in sessions : \A y \in hit : x.userId # y.userId }, << >>)

\* AuthController.revokeSession; prisma.session.delete throws when no row
\* has the id
revokeSession(sessionId) ==
    IF ~sessionId.defined
    THEN SessionOutcome(400, "Session ID is required.", sessions, << >>)
    ELSE IF \A x \in sessions : x.id # sessionId.val
    THEN SessionOutcome(500, "Revoke session failed. Please try again later.",
                        sessions, << >>)
    ELSE SessionOutcome(200, "Session revoked successfully.",
                        { x \in sessions : x.id # sessionId.val }, << >>)

\* AuthController.revokeAllSessions; user is req.user
revokeAllSessions(user) ==
    IF user = Null
    THEN SessionOutcome(400, "User ID is required.", sessions, << >>)
    ELSE SessionOutcome(200, "All sessions revoked successfully.",
                        { x \in sessions : x.userId # user.userId }, << >>)

\* the response of a session handler
SessionResp(op, input, user, out) ==
    [NoResp EXCEPT !.op = op, !.status = out.status, !.message = out.message,
                   !.input = input, !.user = user, !.data = out.data]

GetAllSessions(user) ==
    /\ resp' = SessionResp("getAllSessions", Null, user, getAllSessions(user))
    /\ UNCHANGED << now, ticks, users, roles, userRoles, sessions, sessionSeq,
                    auditLog, cacheSessions, blacklist, req, client, mail, twoFactorSettings, emailOtp >>

\* user is req.user, which the handler does not read
RevokeSession(user, sessionId) ==
    /\ sessions' = revokeSession(sessionId).sessions
    /\ resp' = SessionResp("revokeSession", sessionId, user,
                           revokeSession(sessionId))
    /\ UNCHANGED << now, ticks, users, roles, userRoles, sessionSeq,
                    auditLog, cacheSessions, blacklist, req, client, mail, twoFactorSettings, emailOtp >>

RevokeAllSessions(user) ==
    /\ sessions' = revokeAllSessions(user).sessions
    /\ resp' = SessionResp("revokeAllSessions", Null, user,
                           revokeAllSessions(user))
    /\ UNCHANGED << now, ticks, users, roles, userRoles, sessionSeq,
                    auditLog, cacheSessions, blacklist, req, client, mail, twoFactorSettings, emailOtp >>

\* the store and the cache after the earlier logins
InitSession ==
    /\ now = 0
    /\ ticks = 0
    /\ users = [i \in UserIds |->
                 NewUser(i, EmailOf[i], PhoneOf[i], hashPassword(PasswordOf[i]))]
    /\ roles = SeededRoles
    /\ userRoles = {}
    /\ sessions = EarlierSessions
    /\ sessionSeq = 0
    /\ auditLog = << >>
    /\ cacheSessions = [k \in { x.id : x \in EarlierSessions } |->
                          MirrorOf(CHOOSE x \in EarlierSessions : x.id = k)]
    /\ blacklist = [k \in {} |-> 0]
    /\ req = [h \in Handlers |-> IdleReq]
    /\ client = [access |-> NoToken, refresh |-> NoToken]
    /\ mail = {}
    /\ twoFactorSettings = [u \in {} |-> Null]
    /\ emailOtp = [u \in {} |-> Null]
    /\ resp = NoResp

\* req.user of the session routes
SessionUsers ==
    { Null, [userId |-> "u1", email |-> EmailOf["u1"]],
      [userId |-> "u2", email |-> EmailOf["u2"]] }

\* req.params.id: absent, the id of no row, the ids of the rows
SessionIdInputs ==
    { Undefined, Some(999) } \cup { Some(x.id) : x \in sessions }

NextSession ==
    \/ Login("h1", {EmailOf["u1"]}, {PasswordOf["u1"]})
    \/ \E u \in SessionUsers : GetAllSessions(u)
    \/ \E u \in SessionUsers, id \in SessionIdInputs : RevokeSession(u, id)
    \/ \E u \in SessionUsers : RevokeAllSessions(u)
    \/ Tick(1)

SpecSession == InitSession /\ [][NextSession]_vars

\* C16: when the write of the session's mirror to the cache fails during
\* login, the login is not failed: it goes on to its 200 response with the
\* tokens, and the durable session record written just before stays.
C16_MirrorFailureTolerated ==
    [][\A h \in Handlers :
        ( /\ Steps(h, "mirror")
          /\ req[h].session.id \notin DOMAIN cacheSessions' )
        => /\ req'[h].status # 500
           /\ req'[h].pc = "audit"
           /\ req'[h].accessToken # NoToken
           /\ req[h].session \in sessions'
      ]_vars

\* C17: revokeSession(id) on an existing session removes exactly that one
\* session from the durable store and leaves every other session, of the same
\* identity and of the others, present and listable.
C17_RevokesExactlyOne ==
    [][ ( /\ resp'.op = "revokeSession"
          /\ resp'.input.defined
          /\ \E x \in sessions : x.id = resp'.input.val )
        => /\ resp'.status = 200
           /\ \A x \in sessions : x.id = resp'.input.val => x \notin sessions'
           /\ \A x \in sessions :
                x.id # resp'.input.val
                    => /\ x \in sessions'
                       /\ \E i \in 1..Len(SessionsOf(x.userId)') :
                              SessionsOf(x.userId)'[i] = x
           /\ sessions' \subseteq sessions
      ]_vars

C17_Witness ==
    /\ resp.op = "revokeSession"
    /\ resp.status = 200
    /\ resp.input = Some(101)
    /\ \A x \in sessions : x.id # 101
    /\ \E x \in sessions : x.id = 102 /\ x.userId = "u1"
    /\ \E x \in sessions : x.id = 103 /\ x.userId = "u2"
    /\ Len(SessionsOf("u1")) = 2

\* C18: after revokeAllSessions(u) has returned success, the sessions listed
\* for u are none, also when a login for u is in flight: the step that
\* follows the return (which no login begun afterwards can use to create a
\* session) leaves the list empty; the sessions of the other identities are
\* not touched by the bulk delete.
C18_RevokeAllLeavesNone ==
    [][ /\ ( resp.op = "revokeAllSessions" /\ resp.status = 200 )
             => OrderByCreatedDesc(
                    { x \in sessions' : x.userId = resp.user.userId }) = << >>
        /\ ( resp'.op = "revokeAllSessions" /\ resp'.status = 200 )
             => /\ OrderByCreatedDesc(
                       { x \in sessions' : x.userId = resp'.user.userId }) = << >>
                /\ \A u \in UserIds \ {resp'.user.userId} :
                       SessionsOf(u)' = SessionsOf(u)
      ]_vars

\* C19: every session entry in the cache corresponds to a session record
\* that exists in the durable store; after a revoke no mirror entry remains
\* for a revoked session.
C19_CacheMirrorsDurable ==
    \A k \in DOMAIN cacheSessions : \E x \in sessions : x.id = k

(***************************************************************************)
(* utils/permission.utils.ts: getUserPermissions                           *)
(***************************************************************************)
\* the rows of a relation in the order the query returns them
RECURSIVE RowsOf(_)
RowsOf(set) ==
    IF set = {} THEN << >>
    ELSE LET first == CHOOSE x \in set : TRUE
         IN  << first >> \o RowsOf(set \ {first})

\* the orders in which a query may return the rows of a set
OrdersOf(set) ==
    { f \in [1..Cardinality(set) -> set] : \A x \in set : \E i \in DOMAIN f : f[i] = x }

SetAdd_Push(list, item) == Append(list, item)

\* Set.prototype.add: insertion order, no second entry for an item
SetAdd(list, item) == IF Includes(list, item) THEN list ELSE Append(list, item)

\* items.forEach(item => permissions.add(item))
RECURSIVE AddEach(_, _)
AddEach(list, items) ==
    IF items = << >> THEN list
    ELSE AddEach(SetAdd(list, Head(items)), Tail(items))

\* userWithRoles.roles.forEach(userRole => userRole.role.permissions.forEach(...))
RECURSIVE CollectPermissions(_, _)
CollectPermissions(list, userRoleRows) ==
    IF userRoleRows = << >> THEN list
    ELSE CollectPermissions(
             AddEach(list, RowsOf(roles[Head(userRoleRows).roleId].permissions)),
             Tail(userRoleRows))

\* the UserRole rows of a user
UserRolesOf(userId) == { x \in userRoles : x.userId = userId }

\* order: the order in which the include returns the user's UserRole rows
getUserPermissions(userId, order) ==
    IF FindUserById(userId) = Null THEN << >>
    ELSE CollectPermissions(<< >>, order)

GetUserPermissions(userId, order) ==
    /\ resp' = [NoResp EXCEPT !.op = "getUserPermissions", !.input = userId,
                              !.data = getUserPermissions(userId, order)]
    /\ UNCHANGED << now, ticks, users, roles, userRoles, sessions, sessionSeq,
                    auditLog, cacheSessions, blacklist, req, client, mail, twoFactorSettings, emailOtp >>

\* the permissions the RolePermission rows may grant to the roles
GrantChoices ==
    { g \in [RoleIds -> SUBSET {"view_task", "edit_task"}] :
        /\ g["r3"] = {} /\ g["r5"] = {}
        /\ g["r4"] \subseteq {"view_task"} }

InitPermission ==
    /\ now = 0
    /\ ticks = 0
    /\ users = [i \in UserIds |->
                 NewUser(i, EmailOf[i], PhoneOf[i], hashPassword(PasswordOf[i]))]
    /\ \E g \in GrantChoices :
          roles = [r \in RoleIds |->
                     [id |-> r, name |-> RoleNameOf[r], permissions |-> g[r]]]
    /\ userRoles = {}
    /\ sessions = {}
    /\ sessionSeq = 0
    /\ auditLog = << >>
    /\ cacheSessions = [k \in {} |-> Null]
    /\ blacklist = [k \in {} |-> 0]
    /\ req = [h \in Handlers |-> IdleReq]
    /\ client = [access |-> NoToken, refresh |-> NoToken]
    /\ mail = {}
    /\ twoFactorSettings = [u \in {} |-> Null]
    /\ emailOtp = [u \in {} |-> Null]
    /\ resp = NoResp

hasPermission_AnyUser(userId, permissionName) ==
    \E ur \in userRoles : permissionName \in roles[ur.roleId].permissions

\* prisma.user.count({ where: { id, roles: { some: { role: { permissions:
\* { some: { permission: { name } } } } } } } }) > 0
hasPermission(userId, permissionName) ==
    LET count == Cardinality(
            { u \in DOMAIN users :
                /\ users[u].id = userId
                /\ \E ur \in userRoles :
                      /\ ur.userId = u
                      /\ permissionName \in roles[ur.roleId].permissions })
    IN  count > 0

HasPermission(userId, permissionName) ==
    /\ resp' = [NoResp EXCEPT !.op = "hasPermission",
                  !.input = [userId |-> userId, permissionName |-> permissionName],
                  !.next = hasPermission(userId, permissionName)]
    /\ UNCHANGED << now, ticks, users, roles, userRoles, sessions, sessionSeq,
                    auditLog, cacheSessions, blacklist, req, client, mail, twoFactorSettings, emailOtp >>

PermissionNames == {"view_task", "edit_task", "fly"}

PermissionUserIds == {"u1", "u2", "u9"}

PermissionRoleNames == {"Admin", "Manager", "Viewer", "Auditor"}

NextPermission ==
    \/ \E u \in PermissionUserIds :
            \E order \in OrdersOf(UserRolesOf(u)) : GetUserPermissions(u, order)
    \/ \E u \in PermissionUserIds, n \in PermissionRoleNames :
            assignRoleToUser(u, n)
    \/ \E u \in PermissionUserIds, pn \in PermissionNames : HasPermission(u, pn)

SpecPermission == InitPermission /\ [][NextPermission]_vars

\* the permission names granted to the roles assigned to the user
GrantedTo(userId) ==
    UNION { roles[ur.roleId].permissions : ur \in UserRolesOf(userId) }

\* C20: getUserPermissions(u) returns exactly the union, without duplicates,
\* of the permission names granted to each role assigned to u; it returns the
\* empty list when u has no roles and when u does not exist.
C20_PermissionsAreUnion ==
    resp.op = "getUserPermissions" =>
        /\ Range(resp.data) = GrantedTo(resp.input)
        /\ Len(resp.data) = Cardinality(Range(resp.data))
        /\ UserRolesOf(resp.input) = {} => resp.data = << >>
        /\ resp.input \notin DOMAIN users => resp.data = << >>

C20_Witness ==
    /\ resp.op = "getUserPermissions"
    /\ resp.input = "u1"
    /\ Cardinality(UserRolesOf("u1")) = 2
    /\ \A ur \in UserRolesOf("u1") :
           roles[ur.roleId].permissions = {"view_task", "edit_task"}
    /\ Len(resp.data) = 2

\* C21: the two permission entry points agree: for every identity u and
\* permission name p, in every store state, hasPermission(u, p) is true if
\* and only if p is a member of getUserPermissions(u).
C21_EntryPointsAgree ==
    /\ resp.op = "hasPermission" =>
          \A order \in OrdersOf(UserRolesOf(resp.input.userId)) :
              resp.next <=>
                  Includes(getUserPermissions(resp.input.userId, order),
                           resp.input.permissionName)
    /\ resp.op = "getUserPermissions" =>
          \A pn \in PermissionNames :
              hasPermission(resp.input, pn) <=> Includes(resp.data, pn)

C21_Witness ==
    /\ resp.op = "hasPermission"
    /\ resp.next
    /\ resp.input.userId = "u1"
    /\ resp.input.permissionName = "edit_task"
    /\ \E order \in OrdersOf(UserRolesOf("u1")) :
           Includes(getUserPermissions("u1", order), "edit_task")
    /\ ~hasPermission("u2", "edit_task")
    /\ UserRolesOf("u2") # {}

\* C22: assigning a role is idempotent: a second assignRoleToUser(u, r)
\* returns false, adds no second user-role record and leaves the store and
\* getUserPermissions(u) as they were; assigning a role name that does not
\* exist returns false and changes nothing; no pair has two records.
C22_AssignIdempotent ==
    [][ \A u \in PermissionUserIds, n \in PermissionRoleNames :
          ( /\ resp'.op = "assignRoleToUser"
            /\ resp'.input = [userId |-> u, roleName |-> n] )
          => LET had == \E ur \in userRoles :
                            ur.userId = u /\ roles[ur.roleId].name = n
             IN  /\ (had \/ FindRoleByName(n) = Null) =>
                       /\ ~resp'.next
                       /\ userRoles' = userRoles
                       /\ \A order \in OrdersOf(UserRolesOf(u)) :
                              getUserPermissions(u, order)' =
                                  getUserPermissions(u, order)
                 /\ \A a, b \in userRoles' :
                        (a.userId = b.userId /\ a.roleId = b.roleId) => a = b
      ]_vars

C22_Witness ==
    /\ resp.op = "assignRoleToUser"
    /\ ~resp.next
    /\ resp.input = [userId |-> "u1", roleName |-> "Manager"]
    /\ Cardinality({ ur \in userRoles :
                       ur.userId = "u1" /\ roles[ur.roleId].name = "Manager" }) = 1
    /\ roles["r2"].permissions # {}

(***************************************************************************)
(* middlewares/rbac.middleware.ts: authorize called with any req.user.     *)
(***************************************************************************)
\* req.user: none, or an identity with roles and explicit permissions
GuardUsers ==
    {Null} \cup
    { [userId |-> "u1", email |-> EmailOf["u1"], roles |-> r, permissions |-> p] :
        r \in { << >>, << "Viewer" >>, << "Manager" >>, << "Viewer", "Manager" >>,
                << "Auditor" >> },
        p \in { << >>, << "delete_project" >>, << "fly" >> } }

GuardRequirements ==
    { << >>, << "Manager" >>, << "Viewer", "Manager" >>, << "Admin", "Guest" >>,
      << "create_project", "delete_project" >>, << "view_roles", "fly" >>,
      << "delete_user", "fly", "view_task" >> }

\* authorize(required, { requireAll, checkPermissions })
GuardRoutes ==
    { [required |-> rq, requireAll |-> all, checkPermissions |-> perms] :
        rq \in GuardRequirements, all \in BOOLEAN, perms \in BOOLEAN }

\* the middleware authorize(...) runs for a request with req.user
Authorize(user, route) ==
    /\ LET rbac == authorize(user, route.required, route.requireAll,
                             route.checkPermissions)
       IN  resp' = [NoResp EXCEPT !.op = "authorize", !.status = rbac.status,
                      !.message = rbac.error, !.missing = rbac.missing,
                      !.next = rbac.next, !.user = user, !.input = route]
    /\ UNCHANGED << now, ticks, users, roles, userRoles, sessions, sessionSeq,
                    auditLog, cacheSessions, blacklist, req, client, mail, twoFactorSettings, emailOtp >>

NextGuard == \E u \in GuardUsers, rt \in GuardRoutes : Authorize(u, rt)

SpecGuard == Init /\ [][NextGuard]_vars

\* what the identity holds for a route: its roles in role mode; in permission
\* mode the catalog permissions of its roles and its explicit permissions
Held(user, route) ==
    IF route.checkPermissions
    THEN { pm \in Range(ALL_PERMISSIONS) :
             \E r \in Range(ROLES) :
                 Includes(user.roles, r) /\ Includes(ROLE_PERMISSIONS[r], pm) }
           \cup Range(user.permissions)
    ELSE Range(user.roles)

\* C23: authorize calls next exactly when, in mode all, every required item
\* is held, or, in mode any, at least one required item is held; with an
\* empty required set mode any denies and mode all allows.
C23_AllowIffHeld ==
    (resp.op = "authorize" /\ resp.user # Null) =>
        LET required == Range(resp.input.required)
            held == Held(resp.user, resp.input)
        IN  /\ resp.next <=>
                 IF resp.input.requireAll THEN required \subseteq held
                 ELSE required \cap held # {}
            /\ required = {} => (resp.next <=> resp.input.requireAll)

C23_Witness ==
    /\ resp.op = "authorize"
    /\ resp.next
    /\ resp.user # Null
    /\ resp.input = [required |-> << "create_project", "delete_project" >>,
                     requireAll |-> TRUE, checkPermissions |-> TRUE]
    /\ resp.user.roles = << "Manager" >>
    /\ resp.user.permissions = << "delete_project" >>

\* C24: whenever authorize denies an attached identity (403), the 'missing'
\* list of the response is the set difference required minus held, in mode
\* any and in mode all.
C24_MissingIsDifference ==
    (resp.op = "authorize" /\ resp.status = 403) =>
        Range(resp.missing) =
            Range(resp.input.required) \ Held(resp.user, resp.input)

\* C25: authorize answers 401 if and only if no identity is attached to the
\* request, whatever the required set and mode; it answers 403 only for an
\* attached identity whose decision is deny; in neither case is next called.
C25_UnauthenticatedIffNoIdentity ==
    resp.op = "authorize" =>
        /\ resp.status = 401 <=> resp.user = Null
        /\ resp.status = 403 =>
              /\ resp.user # Null
              /\ LET required == Range(resp.input.required)
                     held == Held(resp.user, resp.input)
                 IN  ~( IF resp.input.requireAll THEN required \subseteq held
                        ELSE required \cap held # {} )
        /\ resp.status \in {401, 403} => ~resp.next
        /\ resp.next => resp.status \notin {401, 403}

C25_Witness ==
    /\ resp.op = "authorize"
    /\ resp.user = Null
    /\ resp.status = 401
    /\ ~resp.next
    /\ resp.input.required = << >>
    /\ resp.input.requireAll

(***************************************************************************)
(* The audit log.                                                          *)
(***************************************************************************)
\* C26: every state-changing operation emits exactly one audit entry: a
\* failed login that increments failedAttempts or locks the account and a
\* revokeSession or revokeAllSessions that deletes sessions each append one
\* audit record.
C26_EveryChangeAudited ==
    [][ /\ ( /\ resp'.op \in {"revokeSession", "revokeAllSessions"}
             /\ resp'.status = 200
             /\ sessions' # sessions )
            => Len(auditLog') = Len(auditLog) + 1
        /\ \A h \in Handlers :
             ( /\ Steps(h, "compare")
               /\ req'[h].status = 401
               /\ users' # users )
            => Len(auditLog') = Len(auditLog) + 1
      ]_vars

\* C27: audit writes are best-effort: when the write of the audit entry
\* fails during login, the login still returns its 200 with the tokens and
\* its other effects stand.
C27_AuditFailureTolerated ==
    [][\A h \in Handlers :
        ( /\ Steps(h, "audit")
          /\ auditLog' = auditLog )
        => /\ req'[h].status = 200
           /\ client'.access = req[h].accessToken
           /\ req[h].session \in sessions'
      ]_vars

(***************************************************************************)
(* controllers/auth.controller.ts: register                                *)
(***************************************************************************)
\* @default(uuid()) of a new User row
NewUserIds == {"u3", "u4"}

\* the request bodies: email and phone (the other fields are present)
RegisterInputs ==
    { [email |-> "new@syncflow.io", phone |-> "+300"],
      [email |-> "new@syncflow.io", phone |-> "+400"],
      [email |-> "other@syncflow.io", phone |-> "+300"],
      [email |-> EmailOf["u1"], phone |-> "+500"],
      [email |-> "third@syncflow.io", phone |-> PhoneOf["u1"]],
      [email |-> "new@syncflow.io", phone |-> ""] }

RegisterPasswords == {"pw-new"}

\* the outcomes of the writes made inside the transaction
TransactionOutcomes == {"ok", "cacheFails", "auditFails"}

IdleRegister ==
    [pc |-> "idle", email |-> "", phone |-> "", password |-> "", ip |-> "",
     userAgent |-> "", user |-> Null, session |-> NoSession,
     status |-> 0, message |-> ""]

UniqueEmail_Absent(email) == TRUE

\* email @unique: the store takes a User row only when no row has the email
UniqueEmail(email) == \A i \in DOMAIN users : users[i].email # email

\* prisma.user.findFirst({ where: { OR: [{ email }, { phone }] } })
FindFirstByEmailOrPhone(email, phone) ==
    LET hit == { i \in DOMAIN users :
                   users[i].email = email \/ users[i].phone = phone }
    IN  IF hit = {} THEN Null ELSE users[CHOOSE i \in hit : TRUE]

\* the request arrives; the body is validated
RegisterStart(h, input, password, ip, ua) ==
    /\ req[h].pc = "idle"
    /\ LET r == [IdleRegister EXCEPT !.email = input.email,
                                     !.phone = input.phone,
                                     !.password = password,
                                     !.ip = ip, !.userAgent = ua]
       IN  req' = [req EXCEPT ![h] =
                IF input.email = "" \/ input.phone = "" \/ password = ""
                THEN Respond(r, 400, "All fields are required.")
                ELSE [r EXCEPT !.pc = "exists"]]
    /\ UNCHANGED << now, ticks, users, roles, userRoles, sessions, sessionSeq,
                    auditLog, cacheSessions, blacklist, client, mail, twoFactorSettings, emailOtp >>
    /\ resp' = NoResp

\* await prisma.user.findFirst
RegisterExists(h) ==
    /\ req[h].pc = "exists"
    /\ req' = [req EXCEPT ![h] =
            IF FindFirstByEmailOrPhone(req[h].email, req[h].phone) # Null
            THEN Respond(req[h], 409, "User with this email already exists.")
            ELSE [req[h] EXCEPT !.pc = "create"]]
    /\ UNCHANGED << now, ticks, users, roles, userRoles, sessions, sessionSeq,
                    auditLog, cacheSessions, blacklist, client, mail, twoFactorSettings, emailOtp >>
    /\ resp' = NoResp

\* await hashPassword, then the transaction: user.create, session.create,
\* redis.hset, auditLog.create; an error rolls the rows back (P2002 is 409,
\* any other 500); then the tokens and the welcome mail
RegisterCreate(h, id, outcome, sent) ==
    /\ req[h].pc = "create"
    /\ id \notin DOMAIN users
    /\ sessionSeq < MaxRegistrations
    /\ LET r == req[h]
           row == NewUser(id, r.email, r.phone, hashPassword(r.password))
           s == [id |-> sessionSeq + 1, userId |-> id, ipAddress |-> r.ip,
                 userAgent |-> r.userAgent,
                 expiresAt |-> now + SESSION_LIFETIME, createdAt |-> now]
       IN  IF ~UniqueEmail(r.email)
           THEN /\ req' = [req EXCEPT ![h] =
                     Respond(r, 409, "User with this email already exists.")]
                /\ UNCHANGED << users, sessions, sessionSeq, cacheSessions,
                                auditLog, client, mail >>
           ELSE IF outcome # "ok"
           THEN /\ req' = [req EXCEPT ![h] =
                     Respond(r, 500, "Registration failed. Please try again later.")]
                /\ cacheSessions' =
                     IF outcome = "auditFails"
                     THEN [k \in DOMAIN cacheSessions \cup {s.id} |->
                             IF k = s.id THEN MirrorOf(s) ELSE cacheSessions[k]]
                     ELSE cacheSessions
                /\ sessionSeq' = sessionSeq + 1
                /\ UNCHANGED << users, sessions, auditLog, client, mail >>
           ELSE /\ users' = [i \in DOMAIN users \cup {id} |->
                               IF i = id THEN row ELSE users[i]]
                /\ sessions' = sessions \cup {s}
                /\ sessionSeq' = sessionSeq + 1
                /\ cacheSessions' =
                     [k \in DOMAIN cacheSessions \cup {s.id} |->
                        IF k = s.id THEN MirrorOf(s) ELSE cacheSessions[k]]
                /\ auditLog' = Append(auditLog,
                        [action |-> "USER_REGISTERED", userId |-> id,
                         ipAddress |-> r.ip])
                /\ client' = [access |->
                                 generateAccessToken(
                                     [userId |-> id, email |-> r.email,
                                      roles |-> Some(<< >>),
                                      permissions |-> Some(<< >>)], now),
                              refresh |->
                                 generateRefreshToken(id, "jti-1", now)]
                /\ SendMail(r.email, "welcome", generatetoken(r.email, now), sent)
                /\ req' = [req EXCEPT ![h] =
                     Respond([r EXCEPT !.user = row, !.session = s], 201,
                             "User registered successfully.")]
    /\ UNCHANGED << now, ticks, roles, userRoles, blacklist, twoFactorSettings, emailOtp >>
    /\ resp' = NoResp

\* the handler has returned
RegisterReturn(h) ==
    /\ req[h].pc = "done"
    /\ req' = [req EXCEPT ![h] = IdleReq]
    /\ UNCHANGED << now, ticks, users, roles, userRoles, sessions, sessionSeq,
                    auditLog, cacheSessions, blacklist, client, mail, twoFactorSettings, emailOtp >>
    /\ resp' = NoResp

Register(h) ==
    \/ \E input \in RegisterInputs, pw \in RegisterPasswords, ip \in IPs,
          ua \in UserAgents : RegisterStart(h, input, pw, ip, ua)
    \/ RegisterExists(h)
    \/ \E outcome \in TransactionOutcomes, sent \in BOOLEAN :
            /\ NewUserIds \ DOMAIN users # {}
            /\ RegisterCreate(h, CHOOSE id \in NewUserIds \ DOMAIN users : TRUE,
                              outcome, sent)
    \/ RegisterReturn(h)

NextRegister == \E h \in Handlers : Register(h)

SpecRegister == Init /\ [][NextRegister]_vars

\* C28: in every reachable state no two identities share an email and no two
\* identities share a phone number, also when registrations with the same
\* email or the same phone run concurrently.
C28_UniqueEmailAndPhone ==
    \A i, j \in DOMAIN users :
        i # j => /\ users[i].email # users[j].email
                 /\ users[i].phone # users[j].phone

(***************************************************************************)
(* Two-factor: the authenticator app.  speakeasy is called with a secret,  *)
(* an encoding and a token only, so its time step and its window are the   *)
(* library's defaults.                                                     *)
(***************************************************************************)
MaxTotpTicks == 1

\* the time step of speakeasy.totp when the options name none, in seconds
TOTP_STEP == 30

\* speakeasy.generateSecret: a random secret
AuthAppSecrets == {"S1", "S2"}

\* speakeasy.hotp: the code of a secret and a counter; two codes are equal
\* when secret and counter are
hotp(secret, counter) == [secret |-> secret, counter |-> counter]

\* speakeasy._counter: the number of whole time steps since the epoch
counterOf(time) == time \div TOTP_STEP

\* parseInt(options.window, 10) || 0
WindowOf(options) ==
    IF "window" \in DOMAIN options THEN options.window ELSE 0

\* speakeasy.hotp.verifyDelta: the first counter of counter..counter+window
\* whose code is the token, as a distance from counter
hotpVerifyDelta(secret, token, counter, window) ==
    LET hits == { i \in counter..(counter + window) : hotp(secret, i) = token }
    IN  IF hits = {}
        THEN Undefined
        ELSE Some((CHOOSE i \in hits : \A j \in hits : i <= j) - counter)

\* speakeasy.totp.verifyDelta: the window is made two-sided around the
\* counter of the time
totpVerifyDelta(options, time) ==
    LET window == WindowOf(options)
        delta == hotpVerifyDelta(options.secret, options.token,
                                 counterOf(time) - window, window + window)
    IN  IF delta = Undefined THEN Undefined ELSE Some(delta.val - window)

\* speakeasy.totp.verify
totpVerify(options, time) == totpVerifyDelta(options, time) # Undefined

\* the row prisma.twoFactorSettings.upsert creates
NewTwoFactorSettings(userId, secret) ==
    [userId |-> userId, authAppEnabled |-> TRUE, authAppSecret |-> secret,
     emailCode |-> Undefined, backupCodes |-> << >>]

\* AuthController.setTwoFactor; userId is req.user?.userId, "" when absent
SetTwoFactor(userId, secret) ==
    /\ IF userId = ""
       THEN /\ resp' = [NoResp EXCEPT !.op = "setTwoFactor", !.status = 400,
                                      !.message = "User ID is required."]
            /\ UNCHANGED twoFactorSettings
       ELSE /\ twoFactorSettings' =
                 [u \in DOMAIN twoFactorSettings \cup {userId} |->
                    IF u # userId THEN twoFactorSettings[u]
                    ELSE IF u \in DOMAIN twoFactorSettings
                    THEN Merge(twoFactorSettings[u],
                               [authAppEnabled |-> TRUE, authAppSecret |-> secret])
                    ELSE NewTwoFactorSettings(userId, secret)]
            /\ resp' = [NoResp EXCEPT !.op = "setTwoFactor", !.status = 200,
                          !.message =
                              "Two-factor authentication setup successfully.",
                          !.input = [userId |-> userId],
                          !.data = secret]
    /\ UNCHANGED << now, ticks, users, roles, userRoles, sessions, sessionSeq,
                    auditLog, cacheSessions, blacklist, req, client, mail, emailOtp >>

\* AuthController.verifyTwoFactor; token is req.body.token.  The handler
\* passes the emptied secret of a disabled row to speakeasy as it is: the
\* library computes the code of the empty key, or, where it pads the key to
\* the size of the digest, throws
VerifyTwoFactor(userId, token, emptyKeyThrows) ==
    /\ resp' =
         IF userId = "" \/ token = Undefined
         THEN [NoResp EXCEPT !.op = "verifyTwoFactor", !.status = 400,
                             !.message = "User ID and token are required."]
         ELSE IF userId \notin DOMAIN twoFactorSettings
         THEN [NoResp EXCEPT !.op = "verifyTwoFactor", !.status = 404,
                             !.message = "Two-factor authentication not set up.",
                             !.input = [userId |-> userId, token |-> token]]
         ELSE IF twoFactorSettings[userId].authAppSecret = "" /\ emptyKeyThrows
         THEN [NoResp EXCEPT !.op = "verifyTwoFactor", !.status = 500,
                 !.message = "Verify two-factor authentication failed. Please try again later.",
                 !.input = [userId |-> userId, token |-> token]]
         ELSE IF ~totpVerify([secret |-> twoFactorSettings[userId].authAppSecret,
                              encoding |-> "base32", token |-> token.val], now)
         THEN [NoResp EXCEPT !.op = "verifyTwoFactor", !.status = 401,
                             !.message = "Invalid token.",
                             !.input = [userId |-> userId, token |-> token]]
         ELSE [NoResp EXCEPT !.op = "verifyTwoFactor", !.status = 200,
                 !.message = "Two-factor authentication verified successfully.",
                 !.input = [userId |-> userId, token |-> token]]
    /\ UNCHANGED << now, ticks, users, roles, userRoles, sessions, sessionSeq,
                    auditLog, cacheSessions, blacklist, req, client, mail,
                    twoFactorSettings, emailOtp >>

\* AuthController.disableTwoFactor; the update of a row that does not exist
\* throws
DisableTwoFactor(userId) ==
    /\ IF userId = ""
       THEN /\ resp' = [NoResp EXCEPT !.op = "disableTwoFactor", !.status = 400,
                                      !.message = "User ID is required."]
            /\ UNCHANGED twoFactorSettings
       ELSE IF userId \notin DOMAIN twoFactorSettings
       THEN /\ resp' = [NoResp EXCEPT !.op = "disableTwoFactor", !.status = 500,
                          !.message = "Disable two-factor authentication failed. Please try again later.",
                          !.input = [userId |-> userId]]
            /\ UNCHANGED twoFactorSettings
       ELSE /\ twoFactorSettings' =
                 [twoFactorSettings EXCEPT ![userId] =
                    Merge(@, [authAppEnabled |-> FALSE, authAppSecret |-> ""])]
            /\ resp' = [NoResp EXCEPT !.op = "disableTwoFactor", !.status = 200,
                          !.message =
                              "Two-factor authentication disabled successfully.",
                          !.input = [userId |-> userId]]
    /\ UNCHANGED << now, ticks, users, roles, userRoles, sessions, sessionSeq,
                    auditLog, cacheSessions, blacklist, req, client, mail, emailOtp >>

(***************************************************************************)
(* utils/backupCodes.utils.ts                                              *)
(***************************************************************************)
MaxCount == 2

MaxLength == 2

HexDigits == {"a", "f"}

\* crypto.randomBytes(length).toString('hex').slice(0, length): the strings of
\* length hexadecimal digits
Plaintexts(length) == [1..length -> HexDigits]

\* crypto.createHash('sha256').update(plaintext).digest('hex')
sha256Hex(plaintext) == << "sha256", plaintext >>

\* data: { backupCodes: hashedCodes } sets the column
SetBackupCodes_Push(stored, hashedCodes) == stored \o hashedCodes

SetBackupCodes(stored, hashedCodes) == hashedCodes

\* generateAndStoreBackupCodes, codes being the plaintexts drawn; the update
\* of a row that does not exist throws
generateAndStoreBackupCodes(userId, codes) ==
    LET hashedCodes == [i \in 1..Len(codes) |-> sha256Hex(codes[i])]
    IN  IF userId \in DOMAIN twoFactorSettings
        THEN [threw |-> FALSE,
              twoFactorSettings |->
                 [twoFactorSettings EXCEPT ![userId] =
                    Merge(@, [backupCodes |->
                                 SetBackupCodes(@.backupCodes, hashedCodes)])],
              codes |-> Some(codes)]
        ELSE [threw |-> TRUE, twoFactorSettings |-> twoFactorSettings,
              codes |-> Undefined]

GenerateAndStoreBackupCodes(userId, count, length, codes) ==
    /\ codes \in [1..count -> Plaintexts(length)]
    /\ twoFactorSettings' =
         generateAndStoreBackupCodes(userId, codes).twoFactorSettings
    /\ resp' = [NoResp EXCEPT
                  !.op = "generateAndStoreBackupCodes",
                  !.input = [userId |-> userId, count |-> count,
                             length |-> length],
                  !.next = ~generateAndStoreBackupCodes(userId, codes).threw,
                  !.data = generateAndStoreBackupCodes(userId, codes).codes]
    /\ UNCHANGED << now, ticks, users, roles, userRoles, sessions, sessionSeq,
                    auditLog, cacheSessions, blacklist, req, client, mail, emailOtp >>

\* the clock advances by half a time step or by a whole one
TotpTick(d) ==
    /\ ticks < MaxTotpTicks
    /\ now' = now + d
    /\ ticks' = ticks + 1
    /\ resp' = NoResp
    /\ UNCHANGED << users, roles, userRoles, sessions, sessionSeq, auditLog,
                    cacheSessions, blacklist, req, client, mail,
                    twoFactorSettings, emailOtp >>

TotpTickSteps == {TOTP_STEP \div 2, TOTP_STEP}

\* req.user?.userId of the two-factor routes
TwoFactorUserIds == {"u1", "u2"}

\* the codes a client can present: of a stored secret, of the emptied secret
\* and of a secret nobody holds, for the time steps around the clock's
TotpCounters == -2 .. (MaxTotpTicks + 2)

PresentedTokens ==
    {Undefined} \cup
    { Some(hotp(s, c)) : s \in AuthAppSecrets \cup {"", "S9"}, c \in TotpCounters }

NextTwoFactor ==
    \/ \E u \in TwoFactorUserIds \cup {""}, s \in AuthAppSecrets :
            SetTwoFactor(u, s)
    \/ \E u \in TwoFactorUserIds \cup {""}, t \in PresentedTokens,
          emptyKeyThrows \in BOOLEAN :
            VerifyTwoFactor(u, t, emptyKeyThrows)
    \/ \E u \in TwoFactorUserIds \cup {""} : DisableTwoFactor(u)
    \/ \E d \in TotpTickSteps : TotpTick(d)

SpecTwoFactor == Init /\ [][NextTwoFactor]_vars

\* two-factor set-up and the generation of backup codes, in any order
NextBackupCodes ==
    \/ \E u \in TwoFactorUserIds \cup {""}, s \in AuthAppSecrets :
            SetTwoFactor(u, s)
    \/ \E u \in TwoFactorUserIds, count \in 0..MaxCount, length \in 1..MaxLength :
            \E codes \in [1..count -> Plaintexts(length)] :
                GenerateAndStoreBackupCodes(u, count, length, codes)

SpecBackupCodes == Init /\ [][NextBackupCodes]_vars

\* C29: authenticator-app verification accepts a presented code exactly when
\* it is the code of the stored secret for the current time step, the one
\* before it or the one after it, and rejects the codes of every other step.
C29_WindowOfOneStep ==
    (resp.op = "verifyTwoFactor" /\ resp.status \in {200, 401})
    => LET secret == twoFactorSettings[resp.input.userId].authAppSecret
           counter == counterOf(now)
       IN  (resp.status = 200) <=>
               resp.input.token.val \in
                   { hotp(secret, c) : c \in (counter - 1)..(counter + 1) }

\* C30: a successful generateAndStoreBackupCodes(u, count, length) returns
\* count plaintext codes and leaves as the stored list of u exactly their
\* SHA-256 hashes in the same order, so that no earlier code and no plaintext
\* is stored; it fails exactly when u has no TwoFactorSettings row, and then
\* it stores and returns nothing.
C30_BackupCodesReplaced ==
    [][\A u \in TwoFactorUserIds :
        (resp'.op = "generateAndStoreBackupCodes" /\ resp'.input.userId = u)
        => IF u \in DOMAIN twoFactorSettings
           THEN /\ resp'.next
                /\ resp'.data # Undefined
                /\ Len(resp'.data.val) = resp'.input.count
                /\ twoFactorSettings'[u].backupCodes =
                       [i \in 1..resp'.input.count |->
                            sha256Hex(resp'.data.val[i])]
                /\ \A i \in 1..Len(twoFactorSettings'[u].backupCodes) :
                       \A l \in 1..MaxLength :
                           twoFactorSettings'[u].backupCodes[i]
                               \notin Plaintexts(l)
                /\ \A v \in DOMAIN twoFactorSettings \ {u} :
                       twoFactorSettings'[v] = twoFactorSettings[v]
                /\ twoFactorSettings'[u].authAppSecret =
                       twoFactorSettings[u].authAppSecret
           ELSE /\ ~resp'.next
                /\ resp'.data = Undefined
                /\ twoFactorSettings' = twoFactorSettings
      ]_vars

C30_Witness ==
    /\ resp.op = "generateAndStoreBackupCodes"
    /\ resp.next
    /\ resp.input.count = 2
    /\ resp.input.userId \in DOMAIN twoFactorSettings
    /\ Len(twoFactorSettings[resp.input.userId].backupCodes) = 2
    /\ twoFactorSettings[resp.input.userId].backupCodes[1]
           # twoFactorSettings[resp.input.userId].backupCodes[2]

(***************************************************************************)
(* Concurrent logins: the failed-attempt counter.                          *)
(***************************************************************************)
\* both handlers have answered 401 to a wrong password for the same identity
\* after reading the same failedAttempts n
BothFailedFrom(h1, h2, n) ==
    /\ h1 # h2
    /\ req[h1].pc = "done" /\ req[h1].status = 401
    /\ req[h2].pc = "done" /\ req[h2].status = 401
    /\ req[h1].user # Null /\ req[h2].user # Null
    /\ req[h1].user.id = req[h2].user.id
    /\ ~req[h1].user.isLocked /\ ~req[h2].user.isLocked
    /\ req[h1].user.failedAttempts = n
    /\ req[h2].user.failedAttempts = n

\* C31: the failed-attempt update is a read-then-write: when two concurrent
\* wrong-password logins for the same unlocked identity have both read
\* failedAttempts = n, both write n + 1, and once both have completed the
\* counter stands at n + 1, not n + 2 (for n = 4 both write 5).
C31_LostUpdate ==
    \A h1, h2 \in Handlers : \A n \in 0..LOCK_THRESHOLD :
        BothFailedFrom(h1, h2, n)
        => /\ users[req[h1].user.id].failedAttempts = n + 1
           /\ users[req[h1].user.id].isLocked = (n + 1 >= LOCK_THRESHOLD)

C31_Witness ==
    \E h1, h2 \in Handlers :
        /\ BothFailedFrom(h1, h2, 4)
        /\ users[req[h1].user.id].failedAttempts = 5
        /\ users[req[h1].user.id].isLocked

\* C39: in every reachable state, under any sequence and interleaving of
\* logins, each identity has 0 <= failedAttempts <= 5, and failedAttempts >= 5
\* implies that isLocked is true.
C39_CounterBounded ==
    \A i \in DOMAIN users :
        /\ 0 <= users[i].failedAttempts
        /\ users[i].failedAttempts <= 5
        /\ users[i].failedAttempts >= 5 => users[i].isLocked

C39_Witness ==
    \E i \in DOMAIN users :
        /\ users[i].failedAttempts = 5
        /\ users[i].isLocked
        /\ \E h \in Handlers :
              /\ req[h].pc = "done" /\ req[h].status = 403
              /\ req[h].user # Null /\ req[h].user.id = i

(***************************************************************************)
(* Login: the claims of the access token and the session it creates.       *)
(***************************************************************************)
\* C32: the access token a successful login issues carries the roles assigned
\* to the identity at that moment, so that right after the login the guard
\* authorize([R]) lets the identity pass for every role R it holds.
C32_LoginCarriesRoles ==
    [][\A h \in Handlers :
        (Steps(h, "compare") /\ req'[h].pc = "session")
        => LET user == verifyAccessToken(req'[h].accessToken, now)
           IN  /\ user # Null
               /\ Range(user.roles) = AssignedRoleNames(user.userId)
               /\ \A r \in AssignedRoleNames(user.userId) :
                      authorize(user, << r >>, FALSE, FALSE).next
      ]_vars

\* C33: a login answered 200 has created exactly one new durable session,
\* owned by the identity that logged in and expiring 7 days after its
\* creation, and one cache entry under that session's key with the userId,
\* ipAddress, userAgent and expiresAt of the durable record.
C33_LoginCreatesSession ==
    \A h \in Handlers :
        (req[h].pc = "done" /\ req[h].status = 200)
        => LET s == req[h].session
           IN  /\ s \in sessions
               /\ Cardinality({ x \in sessions : x.id = s.id }) = 1
               /\ s.userId = req[h].user.id
               /\ s.expiresAt = s.createdAt + SESSION_LIFETIME
               /\ s.id \in DOMAIN cacheSessions
               /\ cacheSessions[s.id] =
                      [userId |-> s.userId, ipAddress |-> s.ipAddress,
                       userAgent |-> s.userAgent, expiresAt |-> s.expiresAt]

(***************************************************************************)
(* Registration: the cache mirror inside the transaction.                  *)
(***************************************************************************)
\* C34: when the cache mirror write of the session fails during a
\* registration, the durable writes are not rolled back: the new identity,
\* its session and the registration audit entry are in the durable store.
C34_MirrorFailureKeepsDurable ==
    [][\A h \in Handlers :
        ( /\ Steps(h, "create")
          /\ req'[h].status = 500
          /\ cacheSessions' = cacheSessions )
        => /\ \E i \in DOMAIN users' \ DOMAIN users :
                /\ users'[i].email = req[h].email
                /\ \E s \in sessions' \ sessions : s.userId = i
           /\ Len(auditLog') = Len(auditLog) + 1
           /\ auditLog'[Len(auditLog')].action = "USER_REGISTERED"
      ]_vars

(***************************************************************************)
(* Two-factor: the email one-time code.  sendEmailOtp awaits the mail, the *)
(* cache write, the update of TwoFactorSettings and the audit entry in     *)
(* turn; handlers of concurrent requests interleave at each await.         *)
(***************************************************************************)
MaxOtpSends == 2

\* redis.set(..., 'EX', 300)
EMAIL_OTP_TTL == 300

\* Math.floor(100000 + Math.random() * 900000).toString()
OtpCodes == {"111111", "222222"}

\* req.user of the route, Null when authenticate attached none
OtpUsers == {Null, [userId |-> "u1", email |-> EmailOf["u1"]]}

IdleOtp ==
    [pc |-> "idle", userId |-> "", email |-> "", otp |-> "", ip |-> "",
     status |-> 0, message |-> ""]

\* the request arrives; the code is drawn and mailed
OtpStart(h, user, otp, ip, sent) ==
    /\ req[h].pc = "idle"
    /\ Len(auditLog) < MaxOtpSends
    /\ IF user = Null
       THEN /\ req' = [req EXCEPT ![h] =
                   Respond(IdleOtp, 400, "Email is required.")]
            /\ mail' = mail
       ELSE /\ req' = [req EXCEPT ![h] =
                   [IdleOtp EXCEPT !.pc = "cache", !.userId = user.userId,
                                   !.email = user.email, !.otp = otp,
                                   !.ip = ip]]
            /\ SendMail(user.email, "twoFactor", [otp |-> otp], sent)
    /\ UNCHANGED << now, ticks, users, roles, userRoles, sessions, sessionSeq,
                    auditLog, cacheSessions, blacklist, client,
                    twoFactorSettings, emailOtp >>
    /\ resp' = NoResp

\* await redis.set('emailOtp:<userId>', otp, 'EX', 300)
OtpCache(h, ok) ==
    /\ req[h].pc = "cache"
    /\ IF ok
       THEN /\ emailOtp' =
                 [u \in DOMAIN emailOtp \cup {req[h].userId} |->
                    IF u = req[h].userId
                    THEN [code |-> req[h].otp, expires |-> now + EMAIL_OTP_TTL]
                    ELSE emailOtp[u]]
            /\ req' = [req EXCEPT ![h].pc = "store"]
       ELSE /\ emailOtp' = emailOtp
            /\ req' = [req EXCEPT ![h] =
                   Respond(req[h], 500,
                           "Send email OTP failed. Please try again later.")]
    /\ UNCHANGED << now, ticks, users, roles, userRoles, sessions, sessionSeq,
                    auditLog, cacheSessions, blacklist, client, mail,
                    twoFactorSettings >>
    /\ resp' = NoResp

\* await prisma.twoFactorSettings.update: it throws when no row matches
OtpStore(h, ok) ==
    /\ req[h].pc = "store"
    /\ IF ok /\ req[h].userId \in DOMAIN twoFactorSettings
       THEN /\ twoFactorSettings' =
                 [twoFactorSettings EXCEPT ![req[h].userId] =
                    Merge(@, [emailCode |-> Some(req[h].otp)])]
            /\ req' = [req EXCEPT ![h].pc = "audit"]
       ELSE /\ twoFactorSettings' = twoFactorSettings
            /\ req' = [req EXCEPT ![h] =
                   Respond(req[h], 500,
                           "Send email OTP failed. Please try again later.")]
    /\ UNCHANGED << now, ticks, users, roles, userRoles, sessions, sessionSeq,
                    auditLog, cacheSessions, blacklist, client, mail,
                    emailOtp >>
    /\ resp' = NoResp

\* await prisma.auditLog.create, then the response
OtpAudit(h, ok) ==
    /\ req[h].pc = "audit"
    /\ IF ok
       THEN /\ auditLog' = Append(auditLog,
                   [action |-> "EMAIL_OTP_SENT", userId |-> req[h].userId,
                    ipAddress |-> req[h].ip])
            /\ req' = [req EXCEPT ![h] =
                   Respond(req[h], 200, "Email OTP sent successfully.")]
       ELSE /\ auditLog' = auditLog
            /\ req' = [req EXCEPT ![h] =
                   Respond(req[h], 500,
                           "Send email OTP failed. Please try again later.")]
    /\ UNCHANGED << now, ticks, users, roles, userRoles, sessions, sessionSeq,
                    cacheSessions, blacklist, client, mail,
                    twoFactorSettings, emailOtp >>
    /\ resp' = NoResp

\* the handler has returned
OtpReturn(h) ==
    /\ req[h].pc = "done"
    /\ req' = [req EXCEPT ![h] = IdleOtp]
    /\ UNCHANGED << now, ticks, users, roles, userRoles, sessions, sessionSeq,
                    auditLog, cacheSessions, blacklist, client, mail,
                    twoFactorSettings, emailOtp >>
    /\ resp' = NoResp

\* AuthController.sendEmailOtp
SendEmailOtp(h) ==
    \/ \E user \in OtpUsers, otp \in OtpCodes, ip \in IPs, sent \in BOOLEAN :
            OtpStart(h, user, otp, ip, sent)
    \/ \E ok \in BOOLEAN : OtpCache(h, ok)
    \/ \E ok \in BOOLEAN : OtpStore(h, ok)
    \/ \E ok \in BOOLEAN : OtpAudit(h, ok)
    \/ OtpReturn(h)

InitOtp ==
    /\ now = 0
    /\ ticks = 0
    /\ users = [i \in UserIds |->
                 NewUser(i, EmailOf[i], PhoneOf[i], hashPassword(PasswordOf[i]))]
    /\ roles = SeededRoles
    /\ userRoles = {}
    /\ sessions = {}
    /\ sessionSeq = 0
    /\ auditLog = << >>
    /\ cacheSessions = [k \in {} |-> Null]
    /\ blacklist = [k \in {} |-> 0]
    /\ req = [h \in Handlers |-> IdleOtp]
    /\ client = [access |-> NoToken, refresh |-> NoToken]
    /\ mail = {}
    /\ twoFactorSettings = [u \in {} |-> Null]
    /\ emailOtp = [u \in {} |-> Null]
    /\ resp = NoResp

OtpTickSteps == {1, EMAIL_OTP_TTL}

\* concurrent sendEmailOtp requests, two-factor set-up and the clock
NextEmailOtp ==
    \/ \E h \in Handlers : SendEmailOtp(h)
    \/ \E s \in AuthAppSecrets : SetTwoFactor("u1", s)
    \/ \E d \in OtpTickSteps : Tick(d)

SpecEmailOtp == InitOtp /\ [][NextEmailOtp]_vars

\* no sendEmailOtp of the identity is between its first and its last await
NoSendInProgress(userId) ==
    \A h \in Handlers :
        req[h].userId = userId => req[h].pc \in {"idle", "done"}

\* redis.get('emailOtp:<userId>'): the code of a key that has not expired
CachedOtp(userId) ==
    IF userId \in DOMAIN emailOtp /\ now < emailOtp[userId].expires
    THEN Some(emailOtp[userId].code)
    ELSE Undefined

\* C35: the two copies of the email one-time code agree: whenever no
\* sendEmailOtp of identity u is in progress and the cache holds an unexpired
\* code for u, the durable emailCode of u is that code, also after a send that
\* failed part-way and after two concurrent sends for u.
C35_OtpCopiesAgree ==
    \A u \in UserIds :
        (NoSendInProgress(u) /\ CachedOtp(u) # Undefined)
        => /\ u \in DOMAIN twoFactorSettings
           /\ twoFactorSettings[u].emailCode = CachedOtp(u)

\* C36: once disableTwoFactor(u) has set authAppEnabled to false and cleared
\* the secret, verifyTwoFactor for u answers success for no presented token,
\* until setTwoFactor(u) enrolls a new secret.
C36_DisabledNeverVerifies ==
    \A u \in TwoFactorUserIds :
        ( /\ resp.op = "verifyTwoFactor"
          /\ resp.status \in {200, 401, 500}
          /\ resp.input.userId = u
          /\ ~twoFactorSettings[u].authAppEnabled )
        => resp.status # 200

(***************************************************************************)
(* The revocation list when the cache cannot be reached.                   *)
(***************************************************************************)
\* C37: the blacklist check fails open.  When the read of the cache fails,
\* isTokenBlacklisted answers false and authenticate accepts the token exactly
\* when it verifies; when the write of the cache fails, blacklistToken
\* returns normally and the token is not put on the list.
C37_BlacklistFailsOpen ==
    [][ /\ (Authenticated' /\ ReadsCache(resp'.header) /\ ~resp'.cacheOk)
           => /\ ~isTokenBlacklisted(resp'.header.token, FALSE, now')
              /\ IF verifyAccessToken(resp'.header.token, now') # Null
                 THEN resp'.user = verifyAccessToken(resp'.header.token, now')
                 ELSE /\ RejectedUnauthorized'
                      /\ resp'.message =
                             "Unauthorized: Invalid or expired token"
        /\ (resp'.op = "blacklistToken" /\ ~resp'.cacheOk)
           => /\ resp'.next
              /\ blacklist' = blacklist
      ]_vars

C37_Witness ==
    /\ Authenticated
    /\ ReadsCache(resp.header)
    /\ ~resp.cacheOk
    /\ Revoked(resp.header.token)
    /\ resp.user # Null
    /\ resp.user = verifyAccessToken(resp.header.token, now)

(***************************************************************************)
(* Sessions: who may revoke.                                               *)
(***************************************************************************)
\* C38: a revokeSession request made by identity A deletes a session only if
\* A owns it: naming the id of a session of another identity B leaves the
\* sessions of B as they were.
C38_RevokesOwnSessionsOnly ==
    [][ (resp'.op = "revokeSession" /\ resp'.user # Null)
        => \A x \in sessions :
               x.userId # resp'.user.userId => x \in sessions'
      ]_vars

====
